---------------------------- MODULE Spec2Model ----------------------------
(***************************************************************************)
(* Model of the geojson-cleaning scripts:                                  *)
(*   scripts/contar_ocorrencias_por_bairro.py   (reader, aggregator,       *)
(*                                               boundary enricher)        *)
(*   scripts/extrair_ocorrencias_por_estacao.py (season splitter)          *)
(*   scripts/fix_all_geojson.py                 (GeoJSON fixer)            *)
(*                                                                         *)
(* Python values are records tagged with a "kind".  Python strings are     *)
(* sequences of characters, so that strip(), float(), the date parser and  *)
(* substring tests are computed on the characters.  A character is a       *)
(* one-character string; an accented letter is one character written as    *)
(* the letter followed by its accent ("a~", "a^", "a'", ...).              *)
(***************************************************************************)
EXTENDS Integers, Sequences, FiniteSets, TLC

VARIABLES
    pc,                      \* position of the running script
    data_valor,              \* classifier: the argument
    estacao,                 \* classifier: the outcome of the call
    estacao_extrair,         \* splitter's classifier: the outcome of the call
    features,                \* data['features'] of the occurrence document
    features_validas,        \* ler_ocorrencias: features kept by the filter
    features_invalidas,      \* ler_ocorrencias: counter of rejected features
    gdf_ocorrencias,         \* rows of the occurrence GeoDataFrame
    contagens,               \* the four tables returned by the aggregator
    gdf_bairros,             \* rows of the boundary layer
    gdf_resultado,           \* rows returned by the enricher
    ocorrencias_por_estacao, \* splitter: season -> list of features
    ocorrencias_sem_data,    \* splitter: tally of features without date
    ocorrencias_sem_estacao, \* splitter: tally of unclassified features
    salvo,                   \* corrigir_geojson: features of the saved document
    stats                    \* corrigir_geojson: the statistics returned

vars == <<pc, data_valor, estacao, estacao_extrair, features, features_validas,
          features_invalidas, gdf_ocorrencias, contagens, gdf_bairros,
          gdf_resultado, ocorrencias_por_estacao, ocorrencias_sem_data,
          ocorrencias_sem_estacao, salvo, stats>>

\* Value of a variable the running script does not use.
Unused == [kind |-> "unused"]

(***************************************************************************)
(* Python values                                                           *)
(***************************************************************************)
PyNone == [kind |-> "None"]

PyNaN == [kind |-> "nan"]

PyNaT == [kind |-> "NaT"]

PyStr(s) == [kind |-> "str", chars |-> s]

PyInt(n) == [kind |-> "int", val |-> n]

\* A float is the fraction num / den, den > 0.
Frac(n, d) == [kind |-> "float", num |-> n, den |-> d]

PyFloat(n) == Frac(n, 1)

\* A list whose elements are not inspected by the model.
PyList == [kind |-> "list"]

PyTimestamp(y, m, d) ==
    [kind |-> "Timestamp", year |-> y, month |-> m, day |-> d]

PyDatetime(y, m, d) ==
    [kind |-> "datetime", year |-> y, month |-> m, day |-> d]

\* pd.isna / pd.notna on a scalar.
isna(v) == v.kind \in {"None", "nan", "NaT"}

notna(v) == ~isna(v)

(***************************************************************************)
(* Characters and strings                                                  *)
(***************************************************************************)
\* The characters of an ASCII literal.
Chars(s) == [i \in 1..Len(s) |-> SubSeq(s, i, i)]

DigitChars == <<"0", "1", "2", "3", "4", "5", "6", "7", "8", "9">>

Digits == {DigitChars[i] : i \in 1..Len(DigitChars)}

DigitVal(c) == (CHOOSE i \in 1..Len(DigitChars) : DigitChars[i] = c) - 1

Whitespace == {" ", "\t", "\n"}

RECURSIVE lstrip(_)
lstrip(s) ==
    IF s # <<>> /\ Head(s) \in Whitespace THEN lstrip(Tail(s)) ELSE s

RECURSIVE rstrip(_)
rstrip(s) ==
    IF s # <<>> /\ s[Len(s)] \in Whitespace
    THEN rstrip(SubSeq(s, 1, Len(s) - 1))
    ELSE s

\* str.strip()
strip(s) == rstrip(lstrip(s))

\* Two decimal digits of n, and four decimal digits of n.
Fmt2(n) == <<DigitChars[(n \div 10) + 1], DigitChars[(n % 10) + 1]>>

Fmt4(n) == Fmt2(n \div 100) \o Fmt2(n % 100)

\* The text "YYYY-MM-DD".
FmtISO(y, m, d) == Fmt4(y) \o <<"-">> \o Fmt2(m) \o <<"-">> \o Fmt2(d)

(***************************************************************************)
(* Calendar and pd.to_datetime(..., errors='coerce')                       *)
(***************************************************************************)
IsLeap(y) == (y % 4 = 0 /\ y % 100 # 0) \/ y % 400 = 0

DaysInMonth(y, m) ==
    IF m = 2 THEN (IF IsLeap(y) THEN 29 ELSE 28)
    ELSE IF m \in {4, 6, 9, 11} THEN 30 ELSE 31

ValidDate(y, m, d) == m \in 1..12 /\ d \in 1..DaysInMonth(y, m)

\* The parser on the ISO form "YYYY-MM-DD": a calendar date gives a
\* Timestamp; any other text is coerced to NaT.
to_datetime(s) ==
    IF /\ Len(s) = 10
       /\ s[5] = "-" /\ s[8] = "-"
       /\ \A i \in {1, 2, 3, 4, 6, 7, 9, 10} : s[i] \in Digits
    THEN LET y == 1000 * DigitVal(s[1]) + 100 * DigitVal(s[2])
                  + 10 * DigitVal(s[3]) + DigitVal(s[4])
             m == 10 * DigitVal(s[6]) + DigitVal(s[7])
             d == 10 * DigitVal(s[9]) + DigitVal(s[10])
         IN  IF ValidDate(y, m, d) THEN PyTimestamp(y, m, d) ELSE PyNaT
    ELSE PyNaT

(***************************************************************************)
(* Season classifier (contar_ocorrencias_por_bairro.py)                    *)
(***************************************************************************)
Verao == <<"v", "e", "r", "a", "o">>

Outono == <<"o", "u", "t", "o", "n", "o">>

Inverno == <<"i", "n", "v", "e", "r", "n", "o">>

Primavera == <<"p", "r", "i", "m", "a", "v", "e", "r", "a">>

\* estacoes = ['verao', 'outono', 'inverno', 'primavera']
estacoes == <<Verao, Outono, Inverno, Primavera>>

Estacoes == {estacoes[i] : i \in 1..Len(estacoes)}

\* Outcome of a call: a returned value, or an exception leaving the call.
Return(v) == [raised |-> FALSE, value |-> v]

Raise == [raised |-> TRUE, value |-> PyNone]

\* Variant of the chain whose autumn test is "dia > 20": Mar 20 falls through.
EstacaoDeMesDiaSemOutonoEm20(mes, dia) ==
    IF mes = 12 /\ dia >= 21 THEN PyStr(Verao)
    ELSE IF mes \in {1, 2} THEN PyStr(Verao)
    ELSE IF mes = 3 /\ dia < 20 THEN PyStr(Verao)
    ELSE IF mes = 3 /\ dia > 20 THEN PyStr(Outono)
    ELSE IF mes \in {4, 5} THEN PyStr(Outono)
    ELSE IF mes = 6 /\ dia < 20 THEN PyStr(Outono)
    ELSE IF mes = 6 /\ dia >= 20 THEN PyStr(Inverno)
    ELSE IF mes \in {7, 8} THEN PyStr(Inverno)
    ELSE IF mes = 9 /\ dia < 22 THEN PyStr(Inverno)
    ELSE IF mes = 9 /\ dia >= 22 THEN PyStr(Primavera)
    ELSE IF mes \in {10, 11} THEN PyStr(Primavera)
    ELSE IF mes = 12 /\ dia < 21 THEN PyStr(Primavera)
    ELSE PyNone

\* Variant of the chain whose seasons start the day after the boundary.
EstacaoDeMesDiaInicioExclusivo(mes, dia) ==
    IF mes = 12 /\ dia > 21 THEN PyStr(Verao)
    ELSE IF mes \in {1, 2} THEN PyStr(Verao)
    ELSE IF mes = 3 /\ dia <= 20 THEN PyStr(Verao)
    ELSE IF mes = 3 /\ dia > 20 THEN PyStr(Outono)
    ELSE IF mes \in {4, 5} THEN PyStr(Outono)
    ELSE IF mes = 6 /\ dia <= 20 THEN PyStr(Outono)
    ELSE IF mes = 6 /\ dia > 20 THEN PyStr(Inverno)
    ELSE IF mes \in {7, 8} THEN PyStr(Inverno)
    ELSE IF mes = 9 /\ dia <= 22 THEN PyStr(Inverno)
    ELSE IF mes = 9 /\ dia > 22 THEN PyStr(Primavera)
    ELSE IF mes \in {10, 11} THEN PyStr(Primavera)
    ELSE IF mes = 12 /\ dia <= 21 THEN PyStr(Primavera)
    ELSE PyNone

\* The if/elif chain on (mes, dia), in the order of the source.
EstacaoDeMesDia(mes, dia) ==
    IF mes = 12 /\ dia >= 21 THEN PyStr(Verao)
    ELSE IF mes \in {1, 2} THEN PyStr(Verao)
    ELSE IF mes = 3 /\ dia < 20 THEN PyStr(Verao)
    ELSE IF mes = 3 /\ dia >= 20 THEN PyStr(Outono)
    ELSE IF mes \in {4, 5} THEN PyStr(Outono)
    ELSE IF mes = 6 /\ dia < 20 THEN PyStr(Outono)
    ELSE IF mes = 6 /\ dia >= 20 THEN PyStr(Inverno)
    ELSE IF mes \in {7, 8} THEN PyStr(Inverno)
    ELSE IF mes = 9 /\ dia < 22 THEN PyStr(Inverno)
    ELSE IF mes = 9 /\ dia >= 22 THEN PyStr(Primavera)
    ELSE IF mes \in {10, 11} THEN PyStr(Primavera)
    ELSE IF mes = 12 /\ dia < 21 THEN PyStr(Primavera)
    ELSE PyNone

\* The body of the try block.  pd.isna of a list gives an array, and the
\* truth test of that array raises ValueError.
EstacaoTry(v) ==
    IF v.kind = "list" THEN Raise
    ELSE IF isna(v) THEN Return(PyNone)
    ELSE IF v.kind \in {"Timestamp", "datetime"}
         THEN Return(EstacaoDeMesDia(v.month, v.day))
    ELSE IF v.kind = "str"
         THEN LET data == to_datetime(v.chars)
              IN  IF isna(data) THEN Return(PyNone)
                  ELSE Return(EstacaoDeMesDia(data.month, data.day))
    ELSE Return(PyNone)

\* The call without its "except Exception" clause.
determinar_estacao_sem_except(v) == EstacaoTry(v)

\* try: ... except Exception: return None
determinar_estacao_hemisferio_sul(v) ==
    IF EstacaoTry(v).raised THEN Return(PyNone) ELSE EstacaoTry(v)


(***************************************************************************)
(* Python dicts: insertion-ordered sequences of [k, v] items               *)
(***************************************************************************)
EmptyDict == <<>>

DictKeys(d) == {d[i].k : i \in DOMAIN d}

DictHas(d, key) == key \in DictKeys(d)

\* d.get(key, default)
DictGet(d, key, default) ==
    IF DictHas(d, key)
    THEN d[CHOOSE i \in DOMAIN d : d[i].k = key].v
    ELSE default

\* d[key] = value: an existing key keeps its position, a new one is appended.
DictSet(d, key, value) ==
    IF DictHas(d, key)
    THEN [i \in DOMAIN d |->
             IF d[i].k = key THEN [k |-> key, v |-> value] ELSE d[i]]
    ELSE Append(d, [k |-> key, v |-> value])

\* sum(d.values())
RECURSIVE DictSum(_)
DictSum(d) == IF d = <<>> THEN 0 ELSE Head(d).v + DictSum(Tail(d))

(***************************************************************************)
(* Order of strings (code points), as used by sorted() and groupby         *)
(***************************************************************************)
\* The characters of the model in increasing code point order.
CodePointOrder ==
    <<"\t", "\n", " ", "'", "-", ".", "/",
      "0", "1", "2", "3", "4", "5", "6", "7", "8", "9",
      "A", "B", "C", "D", "E", "F", "G", "H", "I", "J", "K", "L", "M",
      "N", "O", "P", "Q", "R", "S", "T", "U", "V", "W", "X", "Y", "Z",
      "_",
      "a", "b", "c", "d", "e", "f", "g", "h", "i", "j", "k", "l", "m",
      "n", "o", "p", "q", "r", "s", "t", "u", "v", "w", "x", "y", "z",
      "a'", "a^", "a~", "e'", "i'", "o'", "u'">>

Ord(c) == CHOOSE i \in DOMAIN CodePointOrder : CodePointOrder[i] = c

RECURSIVE StrLess(_, _)
StrLess(a, b) ==
    IF b = <<>> THEN FALSE
    ELSE IF a = <<>> THEN TRUE
    ELSE IF Head(a) = Head(b) THEN StrLess(Tail(a), Tail(b))
    ELSE Ord(Head(a)) < Ord(Head(b))

\* sorted() of a set of str values.
RECURSIVE SortStrs(_)
SortStrs(S) ==
    IF S = {} THEN <<>>
    ELSE LET m == CHOOSE x \in S :
                      \A y \in S \ {x} : StrLess(x.chars, y.chars)
         IN  <<m>> \o SortStrs(S \ {m})

(***************************************************************************)
(* Occurrence reader: ler_ocorrencias                                      *)
(***************************************************************************)
PyListOf(items) == [kind |-> "list", items |-> items]

\* A geometry mapping with the given keys.
GeoDict(keys, coords) ==
    [kind |-> "dict", keys |-> keys, coordinates |-> coords]

Feature(g, p) == [geometry |-> g, properties |-> p]

\* The text is a decimal number: optional sign, digits, at most one point.
IsDecimal(s) ==
    LET body == IF s # <<>> /\ Head(s) \in {"+", "-"} THEN Tail(s) ELSE s
    IN  /\ \E i \in DOMAIN body : body[i] \in Digits
        /\ \A i \in DOMAIN body : body[i] \in Digits \cup {"."}
        /\ Cardinality({i \in DOMAIN body : body[i] = "."}) <= 1

\* float(v) returns (TRUE) or raises ValueError / TypeError (FALSE).
float_ok(v) ==
    IF v.kind \in {"int", "float"} THEN TRUE
    ELSE IF v.kind = "str" THEN IsDecimal(strip(v.chars))
    ELSE FALSE

\* coords[:2]
Primeiros2(items) == SubSeq(items, 1, IF Len(items) < 2 THEN Len(items) ELSE 2)

\* Lines 121-123: the list has two or more values and one of the first two
\* is the empty string.
CoordenadasVazias(coords) ==
    /\ coords.kind = "list"
    /\ Len(coords.items) >= 2
    /\ \/ coords.items = <<PyStr(<<>>), PyStr(<<>>)>>
       \/ \E i \in DOMAIN Primeiros2(coords.items) :
              /\ coords.items[i].kind = "str"
              /\ coords.items[i].chars = <<>>

\* Lines 128-134: len(coords) raises TypeError for a value without length;
\* with two or more values both are passed to float().
ConversaoFalha(coords) ==
    IF coords.kind # "list" THEN TRUE
    ELSE IF Len(coords.items) >= 2
         THEN ~(float_ok(coords.items[1]) /\ float_ok(coords.items[2]))
    ELSE FALSE

\* The filter of lines 110-136 on one feature: TRUE when it is appended to
\* features_validas.
FeatureValida(feature) ==
    LET geometry == feature.geometry
    IN  IF geometry.kind = "None" THEN FALSE
        ELSE IF geometry.kind = "dict" /\ "coordinates" \in geometry.keys
             THEN IF CoordenadasVazias(geometry.coordinates) THEN FALSE
                  ELSE IF ConversaoFalha(geometry.coordinates) THEN FALSE
                  ELSE TRUE
        ELSE TRUE

\* features_validas: the features kept, in order.
FiltrarFeatures(fs) == SelectSeq(fs, FeatureValida)

\* GeoDataFrame.from_features builds a shape from every truthy geometry:
\* a Point mapping without a "coordinates" key or with a single coordinate
\* cannot be built and the error leaves ler_ocorrencias (lines 145-147).
FromFeaturesRaises(fs) ==
    \E i \in DOMAIN fs :
        LET g == fs[i].geometry
        IN  /\ g.kind = "dict"
            /\ g.keys # {}
            /\ \/ "coordinates" \notin g.keys
               \/ /\ g.coordinates.kind = "list"
                  /\ Len(g.coordinates.items) = 1

\* The columns of the frame: the property names of its rows.  A frame
\* built from no feature has no column.
Colunas(rows) == UNION {DOMAIN rows[i].properties : i \in DOMAIN rows}

GeoDataFrame(rows) == [columns |-> Colunas(rows), rows |-> rows]

\* row[col]: a property the row's feature lacks reads as NaN.
RowGet(row, col) ==
    IF col \in DOMAIN row.properties THEN row.properties[col] ELSE PyNaN

(***************************************************************************)
(* Aggregator: contar_ocorrencias_por_bairro                               *)
(***************************************************************************)
\* for col in ['data_inicio', 'data_fim', 'data_particao']
colunas_data == <<"data_inicio", "data_fim", "data_particao">>

\* coluna_data is None
SemColuna == "None"

\* The first candidate date column the frame has, or None.
ColunaData(columns) ==
    LET presentes == {i \in DOMAIN colunas_data : colunas_data[i] \in columns}
    IN  IF presentes = {} THEN SemColuna
        ELSE colunas_data[CHOOSE i \in presentes : \A j \in presentes : i <= j]

\* Number of rows whose bairro is the given key.
LinhasDoBairro(rows, key) ==
    Cardinality({i \in DOMAIN rows : RowGet(rows[i], "bairro") = key})

\* Variant of the grouping that keeps a group for the null keys
\* (dropna=False).
GroupBySizeComNulos(rows) ==
    LET chaves == {RowGet(rows[i], "bairro") : i \in DOMAIN rows}
        ordenadas == SortStrs({c \in chaves : notna(c)})
        nulas == IF \E c \in chaves : isna(c) THEN <<PyNaN>> ELSE <<>>
        todas == ordenadas \o nulas
    IN  [j \in DOMAIN todas |->
            [k |-> todas[j],
             v |-> IF isna(todas[j])
                   THEN Cardinality({i \in DOMAIN rows :
                                        isna(RowGet(rows[i], "bairro"))})
                   ELSE LinhasDoBairro(rows, todas[j])]]

\* gdf.groupby('bairro').size().to_dict(): one item per distinct non-null
\* key, in sorted key order, with the number of its rows.
GroupBySize(rows) ==
    LET chaves == {RowGet(rows[i], "bairro") : i \in DOMAIN rows}
        ordenadas == SortStrs({c \in chaves : notna(c)})
    IN  [j \in DOMAIN ordenadas |->
            [k |-> ordenadas[j], v |-> LinhasDoBairro(rows, ordenadas[j])]]

\* d[k1] += 1, d[k1][k2] += 1 and d[k1][k2][k3] += 1 on defaultdicts.
Inc1(d, k1) == DictSet(d, k1, DictGet(d, k1, 0) + 1)

Inc2(d, k1, k2) == DictSet(d, k1, Inc1(DictGet(d, k1, EmptyDict), k2))

Inc3(d, k1, k2, k3) ==
    DictSet(d, k1, Inc2(DictGet(d, k1, EmptyDict), k2, k3))

\* Truth value of the classifier's result in "if estacao:".
Truthy(v) == v.kind = "str" /\ v.chars # <<>>

\* The season of a row (lines 284-287).
EstacaoDaLinha(row, coluna_data) ==
    IF coluna_data # SemColuna
    THEN determinar_estacao_hemisferio_sul(RowGet(row, coluna_data)).value
    ELSE PyNone

\* Variant of the loop body that counts the season inside the type block
\* as well as after it.
ContarLinhaEstacaoDuasVezes(acc, row, tipo_disponivel, coluna_data) ==
    LET bairro == RowGet(row, "bairro")
        est == EstacaoDaLinha(row, coluna_data)
        contaTipo == tipo_disponivel /\ notna(RowGet(row, "tipo"))
        umaVez == IF Truthy(est)
                  THEN Inc2(acc.contagem_por_estacao, bairro, est)
                  ELSE acc.contagem_por_estacao
    IN  IF isna(bairro) THEN acc
        ELSE [contagem_por_tipo |->
                  IF contaTipo
                  THEN Inc2(acc.contagem_por_tipo, bairro, RowGet(row, "tipo"))
                  ELSE acc.contagem_por_tipo,
              contagem_por_tipo_estacao |->
                  IF contaTipo /\ Truthy(est)
                  THEN Inc3(acc.contagem_por_tipo_estacao, bairro,
                            RowGet(row, "tipo"), est)
                  ELSE acc.contagem_por_tipo_estacao,
              contagem_por_estacao |->
                  IF contaTipo /\ Truthy(est)
                  THEN Inc2(umaVez, bairro, est)
                  ELSE umaVez]

\* Variant of the loop body that skips the whole row when its type is null.
ContarLinhaSaltaSemTipo(acc, row, tipo_disponivel, coluna_data) ==
    LET bairro == RowGet(row, "bairro")
        est == EstacaoDaLinha(row, coluna_data)
    IN  IF isna(bairro) THEN acc
        ELSE IF tipo_disponivel /\ isna(RowGet(row, "tipo")) THEN acc
        ELSE [contagem_por_tipo |->
                  IF tipo_disponivel
                  THEN Inc2(acc.contagem_por_tipo, bairro, RowGet(row, "tipo"))
                  ELSE acc.contagem_por_tipo,
              contagem_por_tipo_estacao |->
                  IF tipo_disponivel /\ Truthy(est)
                  THEN Inc3(acc.contagem_por_tipo_estacao, bairro,
                            RowGet(row, "tipo"), est)
                  ELSE acc.contagem_por_tipo_estacao,
              contagem_por_estacao |->
                  IF Truthy(est)
                  THEN Inc2(acc.contagem_por_estacao, bairro, est)
                  ELSE acc.contagem_por_estacao]

\* The body of the loop of lines 278-301 on one row.
ContarLinha(acc, row, tipo_disponivel, coluna_data) ==
    LET bairro == RowGet(row, "bairro")
        est == EstacaoDaLinha(row, coluna_data)
        contaTipo == tipo_disponivel /\ notna(RowGet(row, "tipo"))
    IN  IF isna(bairro) THEN acc
        ELSE [contagem_por_tipo |->
                  IF contaTipo
                  THEN Inc2(acc.contagem_por_tipo, bairro, RowGet(row, "tipo"))
                  ELSE acc.contagem_por_tipo,
              contagem_por_tipo_estacao |->
                  IF contaTipo /\ Truthy(est)
                  THEN Inc3(acc.contagem_por_tipo_estacao, bairro,
                            RowGet(row, "tipo"), est)
                  ELSE acc.contagem_por_tipo_estacao,
              contagem_por_estacao |->
                  IF Truthy(est)
                  THEN Inc2(acc.contagem_por_estacao, bairro, est)
                  ELSE acc.contagem_por_estacao]

\* for _, row in gdf_ocorrencias.iterrows(): ...
RECURSIVE ContarLinhas(_, _, _, _)
ContarLinhas(acc, rows, tipo_disponivel, coluna_data) ==
    IF rows = <<>> THEN acc
    ELSE ContarLinhas(ContarLinha(acc, Head(rows), tipo_disponivel, coluna_data),
                      Tail(rows), tipo_disponivel, coluna_data)

TabelasVazias ==
    [contagem_por_tipo |-> EmptyDict,
     contagem_por_estacao |-> EmptyDict,
     contagem_por_tipo_estacao |-> EmptyDict]

\* Variant of the function that also fails without the 'tipo' column.
contar_ocorrencias_exige_tipo(gdf) ==
    IF "bairro" \notin gdf.columns \/ "tipo" \notin gdf.columns THEN Raise
    ELSE LET coluna_data == ColunaData(gdf.columns)
             t == ContarLinhas(TabelasVazias, gdf.rows, TRUE, coluna_data)
         IN  Return([contagem_total |-> GroupBySize(gdf.rows),
                     contagem_por_tipo |-> t.contagem_por_tipo,
                     contagem_por_estacao |-> t.contagem_por_estacao,
                     contagem_por_tipo_estacao |-> t.contagem_por_tipo_estacao])

\* The whole function: ValueError without the 'bairro' column, else the
\* four tables.
contar_ocorrencias_por_bairro(gdf) ==
    IF "bairro" \notin gdf.columns THEN Raise
    ELSE LET tipo_disponivel == "tipo" \in gdf.columns
             coluna_data == ColunaData(gdf.columns)
             estacao_disponivel == coluna_data # SemColuna
             t == IF tipo_disponivel \/ estacao_disponivel
                  THEN ContarLinhas(TabelasVazias, gdf.rows,
                                    tipo_disponivel, coluna_data)
                  ELSE TabelasVazias
         IN  Return([contagem_total |-> GroupBySize(gdf.rows),
                     contagem_por_tipo |-> t.contagem_por_tipo,
                     contagem_por_estacao |-> t.contagem_por_estacao,
                     contagem_por_tipo_estacao |-> t.contagem_por_tipo_estacao])

(***************************************************************************)
(* String helpers of the enricher                                          *)
(***************************************************************************)
\* str(v) of a name or of a table key.
str(v) ==
    CASE v.kind = "str" -> v.chars
      [] v.kind = "None" -> Chars("None")
      [] v.kind = "nan" -> Chars("nan")

\* sub in s
Contains(s, sub) ==
    \E i \in 0..(Len(s) - Len(sub)) : SubSeq(s, i + 1, i + Len(sub)) = sub

\* s.replace(sub, '')
RECURSIVE RemoveSub(_, _)
RemoveSub(s, sub) ==
    IF Len(s) < Len(sub) THEN s
    ELSE IF SubSeq(s, 1, Len(sub)) = sub
         THEN RemoveSub(SubSeq(s, Len(sub) + 1, Len(s)), sub)
    ELSE <<Head(s)>> \o RemoveSub(Tail(s), sub)

\* s[:n]
Take(s, n) == SubSeq(s, 1, IF Len(s) < n THEN Len(s) ELSE n)

UpperCase == Chars("ABCDEFGHIJKLMNOPQRSTUVWXYZ")

LowerCase == Chars("abcdefghijklmnopqrstuvwxyz")

Accented == {"a'", "a^", "a~", "e'", "i'", "o'", "u'"}

\* c.isalnum()
isalnum(c) ==
    \/ c \in Digits
    \/ c \in Accented
    \/ \E i \in DOMAIN UpperCase : c = UpperCase[i] \/ c = LowerCase[i]

\* c.lower()
lower(c) ==
    IF \E i \in DOMAIN UpperCase : c = UpperCase[i]
    THEN LowerCase[CHOOSE i \in DOMAIN UpperCase : c = UpperCase[i]]
    ELSE c

\* Line 401 on one character: the chain of replace() calls.
Substituir(c) ==
    CASE c = " " -> <<"_">>
      [] c = "'" -> <<>>
      [] c = "a'" -> <<"a">>
      [] c = "e'" -> <<"e">>
      [] c = "i'" -> <<"i">>
      [] c = "o'" -> <<"o">>
      [] c = "u'" -> <<"u">>
      [] OTHER -> <<c>>

\* Lines 401-403: the cleaned, lower-cased type name.
RECURSIVE TipoLimpo(_)
TipoLimpo(tipo) ==
    IF tipo = <<>> THEN <<>>
    ELSE LET r == Substituir(Head(tipo))
             k == [j \in DOMAIN r |->
                      lower(IF isalnum(r[j]) \/ r[j] = "_" THEN r[j] ELSE "_")]
         IN  k \o TipoLimpo(Tail(tipo))

(***************************************************************************)
(* Boundary enricher: adicionar_contagens_ao_shapefile                     *)
(***************************************************************************)
possiveis_nomes ==
    <<Chars("bairro"), Chars("BAIRRO"), Chars("Bairro"), Chars("NOME"),
      Chars("nome"), Chars("NOME_BAIRRO"), Chars("nome_bairro")>>

\* Lines 328-343: the first candidate name among the columns, else the
\* first column of dtype object, else None.  A layer is
\* [columns: sequence of names, objeto: names of the text columns, rows].
ColunaBairro(gdf) ==
    LET cols == {gdf.columns[i] : i \in DOMAIN gdf.columns}
        cand == {i \in DOMAIN possiveis_nomes : possiveis_nomes[i] \in cols}
        texto == {i \in DOMAIN gdf.columns : gdf.columns[i] \in gdf.objeto}
    IN  IF cand # {}
        THEN PyStr(possiveis_nomes[CHOOSE i \in cand : \A j \in cand : i <= j])
        ELSE IF texto # {}
        THEN PyStr(gdf.columns[CHOOSE i \in texto : \A j \in texto : i <= j])
        ELSE PyNone

\* str(k).strip() as a key.
Normalizar(v) == PyStr(strip(str(v)))

\* {str(k).strip(): v for k, v in d.items()}: a later item replaces the
\* value of an earlier one with the same normalized key.
RECURSIVE NormalizarChaves(_)
NormalizarChaves(d) ==
    IF d = <<>> THEN EmptyDict
    ELSE DictSet(NormalizarChaves(SubSeq(d, 1, Len(d) - 1)),
                 Normalizar(d[Len(d)].k), d[Len(d)].v)

\* Lines 359-364: both levels of keys are normalized.
Normalizar2(d) ==
    NormalizarChaves([i \in DOMAIN d |->
                         [k |-> d[i].k, v |-> NormalizarChaves(d[i].v)]])

\* Lines 367-375: the three levels of keys are normalized.
Normalizar3(d) ==
    NormalizarChaves([i \in DOMAIN d |->
                         [k |-> d[i].k, v |-> Normalizar2(d[i].v)]])

ContagemTotal == Chars("contagem_total")

ContagemAlagamento == Chars("contagem_alagamento")

ContagemBolsao == Chars("contagem_bolsao")

ContagemLamina == Chars("contagem_lamina")

AreaKm2 == Chars("area_km2")

StAreasha == Chars("st_areasha")

Geometry == Chars("geometry")

\* Lines 393-403: the column of a type name.
NomeColuna(tipo) ==
    IF Contains(tipo, Chars("Alagamento")) THEN ContagemAlagamento
    ELSE IF \/ Contains(tipo, Chars("Bols"))
            \/ Contains(tipo, Chars("Bols") \o <<"a~", "o">>)
         THEN ContagemBolsao
    ELSE IF \/ Contains(tipo, <<"L", "a^">> \o Chars("mina"))
            \/ Contains(tipo, Chars("Lamina"))
         THEN ContagemLamina
    ELSE Chars("contagem_") \o TipoLimpo(tipo)

\* Lines 383-405: the sorted type names of the type table, each with its
\* column.
MapeamentoTipos(por_tipo) ==
    LET todos_tipos ==
            SortStrs(UNION {DictKeys(por_tipo[i].v) : i \in DOMAIN por_tipo})
    IN  [j \in DOMAIN todos_tipos |->
            [k |-> todos_tipos[j], v |-> NomeColuna(todos_tipos[j].chars)]]

\* Lines 492-499: the short name of a type column.
TipoCurto(tipo_col) ==
    IF Contains(tipo_col, Chars("alagamento")) THEN Chars("alag")
    ELSE IF Contains(tipo_col, Chars("bolsao")) THEN Chars("bolsao")
    ELSE IF Contains(tipo_col, Chars("lamina")) THEN Chars("lamina")
    ELSE Take(RemoveSub(tipo_col, Chars("contagem_")), 6)

\* gdf[name] = value on one row.
SetCol(row, name, value) ==
    [c \in DOMAIN row \cup {name} |-> IF c = name THEN value ELSE row[c]]

M2PorKm2 == 1000000

RECURSIVE GCD(_, _)
GCD(a, b) == IF b = 0 THEN a ELSE GCD(b, a % b)

Abs(n) == IF n < 0 THEN -n ELSE n

\* num / den in lowest terms, den > 0.
Reduzida(n, d) ==
    LET g == GCD(Abs(n), Abs(d))
        sinal == IF d < 0 THEN -1 ELSE 1
    IN  Frac(sinal * (n \div g), sinal * (d \div g))

\* Lines 424-440: the area in km2, from the st_areasha attribute when the
\* layer has it, else from the area of the projected geometry.
AreaDaLinha(gdf, row) ==
    IF \E i \in DOMAIN gdf.columns : gdf.columns[i] = StAreasha
    THEN Reduzida(row[StAreasha].num, row[StAreasha].den * M2PorKm2)
    ELSE Reduzida(row[Geometry].area_m2, M2PorKm2)

\* Variant of the density whose guard is "area_km2 >= 0".
DensidadeGuardaFraca(cont, area) ==
    IF area.num >= 0
    THEN (IF area.num = 0 THEN [kind |-> "ZeroDivisionError"]
          ELSE Reduzida(cont.val * area.den, area.num))
    ELSE PyInt(0)

\* row[C] / row['area_km2'] if row['area_km2'] > 0 else 0
Densidade(cont, area) ==
    IF area.num > 0
    THEN Reduzida(cont.val * area.den, area.num)
    ELSE PyInt(0)

\* Lines 408-411: one column per mapped type, in the order of the mapping;
\* a column named twice keeps the value written last.
RECURSIVE AddTipos(_, _, _, _)
AddTipos(row, b, mapa, por_tipo) ==
    IF mapa = <<>> THEN row
    ELSE AddTipos(SetCol(row, Head(mapa).v,
                         PyInt(DictGet(DictGet(por_tipo, b, EmptyDict),
                                       Head(mapa).k, 0))),
                  b, Tail(mapa), por_tipo)

\* Variant of the default that fills a missing column with 1.
GarantirColunaComUm(row, name) ==
    IF name \in DOMAIN row THEN row ELSE SetCol(row, name, PyInt(1))

\* Lines 414-419: the three known columns exist.
GarantirColuna(row, name) ==
    IF name \in DOMAIN row THEN row ELSE SetCol(row, name, PyInt(0))

\* Lines 447-465: the four densities.
AddDensidades(row) ==
    LET d1 == SetCol(row, Chars("dens_km2"),
                     Densidade(row[ContagemTotal], row[AreaKm2]))
        d2 == SetCol(d1, Chars("dens_lamina"),
                     Densidade(row[ContagemLamina], row[AreaKm2]))
        d3 == SetCol(d2, Chars("dens_bolsao"),
                     Densidade(row[ContagemBolsao], row[AreaKm2]))
    IN  SetCol(d3, Chars("dens_alag"),
               Densidade(row[ContagemAlagamento], row[AreaKm2]))

\* Lines 472-484: a count and a density column per season.
RECURSIVE AddEstacoes(_, _, _, _)
AddEstacoes(row, b, ests, por_estacao) ==
    IF ests = <<>> THEN row
    ELSE LET cont == PyInt(DictGet(DictGet(por_estacao, b, EmptyDict),
                                   PyStr(Head(ests)), 0))
             r1 == SetCol(row, Chars("cont_") \o Head(ests), cont)
             r2 == SetCol(r1, Chars("dens_") \o Head(ests),
                          Densidade(r1[Chars("cont_") \o Head(ests)],
                                    r1[AreaKm2]))
         IN  AddEstacoes(r2, b, Tail(ests), por_estacao)

\* Lines 501-513: for one mapped type, a count and a density column per
\* season; the table is read under the type name of the mapping.
RECURSIVE AddTipoEstacoes(_, _, _, _, _)
AddTipoEstacoes(row, b, item, ests, por_tipo_estacao) ==
    IF ests = <<>> THEN row
    ELSE LET sufixo == TipoCurto(item.v) \o <<"_">> \o Head(ests)
             cont == PyInt(DictGet(DictGet(DictGet(por_tipo_estacao, b,
                                                   EmptyDict),
                                           item.k, EmptyDict),
                                   PyStr(Head(ests)), 0))
             r1 == SetCol(row, Chars("cont_") \o sufixo, cont)
             r2 == SetCol(r1, Chars("dens_") \o sufixo,
                          Densidade(r1[Chars("cont_") \o sufixo], r1[AreaKm2]))
         IN  AddTipoEstacoes(r2, b, item, Tail(ests), por_tipo_estacao)

\* Lines 490-513: the loop over the mapped types.
RECURSIVE AddTiposEstacoes(_, _, _, _)
AddTiposEstacoes(row, b, mapa, por_tipo_estacao) ==
    IF mapa = <<>> THEN row
    ELSE AddTiposEstacoes(
             AddTipoEstacoes(row, b, Head(mapa), estacoes, por_tipo_estacao),
             b, Tail(mapa), por_tipo_estacao)

\* The columns added to one polygon.  T holds the normalized tables and
\* the type mapping.
EnriquecerLinha(gdf, row, coluna_bairro, T) ==
    LET b == Normalizar(row[coluna_bairro])
        r1 == SetCol(row, ContagemTotal, PyInt(DictGet(T.total, b, 0)))
        r2 == AddTipos(r1, b, T.mapeamento, T.por_tipo)
        r3 == GarantirColuna(GarantirColuna(GarantirColuna(r2,
                  ContagemLamina), ContagemBolsao), ContagemAlagamento)
        r4 == SetCol(r3, AreaKm2, AreaDaLinha(gdf, row))
        r5 == AddDensidades(r4)
        r6 == IF T.por_estacao # EmptyDict
              THEN AddEstacoes(r5, b, estacoes, T.por_estacao)
              ELSE r5
    IN  IF T.por_estacao # EmptyDict /\ T.por_tipo_estacao # EmptyDict
        THEN AddTiposEstacoes(r6, b, T.mapeamento, T.por_tipo_estacao)
        ELSE r6

\* Variant of the join that keeps only the polygons with occurrences.
LinhasEnriquecidasSoComOcorrencias(gdf, coluna_bairro, T) ==
    LET todas == [i \in DOMAIN gdf.rows |->
                     EnriquecerLinha(gdf, gdf.rows[i], coluna_bairro, T)]
        ComOcorrencias(r) == r[ContagemTotal].val > 0
    IN  SelectSeq(todas, ComOcorrencias)

\* The columns are added to every row of the layer, in place.
LinhasEnriquecidas(gdf, coluna_bairro, T) ==
    [i \in DOMAIN gdf.rows |->
        EnriquecerLinha(gdf, gdf.rows[i], coluna_bairro, T)]

\* The whole function: ValueError when no name column is found, else the
\* enriched rows.
adicionar_contagens_ao_shapefile(gdf, c) ==
    LET coluna_bairro == ColunaBairro(gdf)
        por_tipo == NormalizarChaves(c.contagem_por_tipo)
        T == [total |-> NormalizarChaves(c.contagem_total),
              por_tipo |-> por_tipo,
              por_estacao |-> Normalizar2(c.contagem_por_estacao),
              por_tipo_estacao |-> Normalizar3(c.contagem_por_tipo_estacao),
              mapeamento |-> MapeamentoTipos(por_tipo)]
    IN  IF coluna_bairro = PyNone THEN Raise
        ELSE Return(LinhasEnriquecidas(gdf, coluna_bairro.chars, T))

(***************************************************************************)
(* Specification of the classifier: one call on one argument               *)
(***************************************************************************)
\* Years of the dates drawn as arguments: a common year and a leap year.
Anos == {2023, 2024}

NaoEData == <<"n", "o", "t", "-", "a", "-", "d", "a", "t", "e">>

\* Texts "YYYY-MM-DD" for every month and day number, calendar dates or not.
TextosDeData == {PyStr(FmtISO(y, m, d)) : y \in Anos, m \in 1..12, d \in 1..31}

DatasValidas == {<<y, m, d>> \in Anos \X (1..12) \X (1..31) : ValidDate(y, m, d)}

\* Values that are neither a date nor a text of a date.
OutrosValores ==
    {PyNone, PyNaN, PyNaT, PyStr(NaoEData), PyStr(<<>>), PyStr(<<" ">>),
     PyInt(20240115), PyFloat(1), PyList}

ValoresDeData ==
    TextosDeData
    \cup {PyTimestamp(t[1], t[2], t[3]) : t \in DatasValidas}
    \cup {PyDatetime(t[1], t[2], t[3]) : t \in DatasValidas}
    \cup OutrosValores

InitEstacao ==
    /\ pc = "inicio"
    /\ data_valor \in ValoresDeData
    /\ estacao = Unused
    /\ features = Unused
    /\ features_validas = Unused
    /\ features_invalidas = 0
    /\ gdf_ocorrencias = Unused
    /\ contagens = Unused
    /\ gdf_bairros = Unused
    /\ gdf_resultado = Unused
    /\ ocorrencias_por_estacao = Unused
    /\ ocorrencias_sem_data = 0
    /\ ocorrencias_sem_estacao = 0
    /\ salvo = Unused
    /\ stats = Unused
    /\ estacao_extrair = Unused

\* estacao = determinar_estacao_hemisferio_sul(data_valor)
Classificar ==
    /\ pc = "inicio"
    /\ estacao' = determinar_estacao_hemisferio_sul(data_valor)
    /\ pc' = "fim"
    /\ UNCHANGED <<data_valor, features, features_validas, features_invalidas,
                   gdf_ocorrencias, contagens, gdf_bairros, gdf_resultado,
                   ocorrencias_por_estacao, ocorrencias_sem_data,
                   ocorrencias_sem_estacao>>
    /\ UNCHANGED <<salvo, stats, estacao_extrair>>

NextEstacao == Classificar

SpecEstacao == InitEstacao /\ [][NextEstacao]_vars

\* The values that denote the calendar date (y, m, d).
FormasDaData(y, m, d) ==
    {PyStr(FmtISO(y, m, d)), PyTimestamp(y, m, d), PyDatetime(y, m, d)}

\* data_valor denotes the date (m, d) of some year.
DataEh(m, d) == \E y \in Anos : data_valor \in FormasDaData(y, m, d)

Classificou(s) == pc = "fim" /\ estacao = Return(PyStr(s))

\* C1: for every valid (month, day) of a calendar year, Feb 29 included, the
\* classifier returns one of the four season labels; the final
\* "else: return None" is not reached for a parsed date.
C1_EstacaoTotal ==
    pc = "fim" =>
        \A t \in DatasValidas :
            data_valor \in FormasDaData(t[1], t[2], t[3]) =>
                /\ ~estacao.raised
                /\ estacao.value.kind = "str"
                /\ estacao.value.chars \in Estacoes
                /\ Cardinality({i \in 1..Len(estacoes) :
                                   estacoes[i] = estacao.value.chars}) = 1

C1_Witness ==
    /\ pc = "fim"
    /\ data_valor = PyStr(FmtISO(2024, 2, 29))
    /\ estacao = Return(PyStr(Verao))

\* C2: a season starts on its boundary date, whatever the year: Mar 20 is
\* autumn, Jun 20 winter, Sep 22 spring, Dec 21 summer, and the day before
\* each still belongs to the previous season.
C2_InicioInclusivo ==
    pc = "fim" =>
        /\ DataEh(3, 20) => Classificou(Outono)
        /\ DataEh(6, 20) => Classificou(Inverno)
        /\ DataEh(9, 22) => Classificou(Primavera)
        /\ DataEh(12, 21) => Classificou(Verao)
        /\ DataEh(3, 19) => Classificou(Verao)
        /\ DataEh(6, 19) => Classificou(Outono)
        /\ DataEh(9, 21) => Classificou(Inverno)
        /\ DataEh(12, 20) => Classificou(Primavera)

C2_Witness ==
    /\ data_valor = PyStr(FmtISO(2023, 9, 22))
    /\ Classificou(Primavera)

\* C3: the classifier never raises; null, an unparseable text or a value
\* of another type gives None as a value.
C3_NuncaLanca ==
    pc = "fim" =>
        /\ ~estacao.raised
        /\ data_valor \in OutrosValores => estacao = Return(PyNone)

C3_Witness ==
    /\ pc = "fim"
    /\ data_valor = PyList
    /\ estacao = Return(PyNone)

(***************************************************************************)
(* Specification of the reader and the aggregator                          *)
(***************************************************************************)
\* Longest occurrence document drawn as input.
MaxFeatures == 3

SeqsUpTo(S, n) == UNION {[1..k -> S] : k \in 0..n}

Centro == <<"C", "e", "n", "t", "r", "o">>

CentroEspaco == Centro \o <<" ">>

Norte == <<"N", "o", "r", "t", "e">>

Alagamento == <<"A", "l", "a", "g", "a", "m", "e", "n", "t", "o">>

Bolsao == <<"B", "o", "l", "s", "a~", "o">>

Longitude == <<"-", "4", "3", ".", "2">>

Latitude == <<"-", "2", "2", ".", "9">>

\* A point with two numeric coordinates.
GeoOk == GeoDict({"type", "coordinates"}, PyListOf(<<PyFloat(-43), PyFloat(-22)>>))

\* The three records of the end-to-end scenario.
Registro1 ==
    [bairro |-> PyStr(Centro), tipo |-> PyStr(Alagamento),
     data_inicio |-> PyStr(FmtISO(2024, 1, 15))]

Registro2 ==
    [bairro |-> PyStr(CentroEspaco), tipo |-> PyStr(Alagamento),
     data_inicio |-> PyStr(FmtISO(2024, 7, 10))]

Registro3 ==
    [bairro |-> PyStr(Norte), tipo |-> PyStr(Bolsao),
     data_inicio |-> PyStr(<<>>)]

Cenario == <<Feature(GeoOk, Registro1), Feature(GeoOk, Registro2),
             Feature(GeoOk, Registro3)>>

\* Property mappings of the occurrences drawn as input: null neighbourhood,
\* null type, unparseable date, a record dated by data_fim only, a record
\* without neighbourhood field and one with the neighbourhood field only.
Propriedades ==
    {Registro1, Registro2, Registro3,
     [bairro |-> PyNone, tipo |-> PyStr(Alagamento),
      data_inicio |-> PyStr(FmtISO(2024, 1, 15))],
     [bairro |-> PyStr(Centro), tipo |-> PyNone,
      data_inicio |-> PyStr(FmtISO(2024, 3, 20))],
     [bairro |-> PyStr(Norte), tipo |-> PyStr(Bolsao),
      data_inicio |-> PyStr(NaoEData)],
     [bairro |-> PyStr(Norte), tipo |-> PyStr(Bolsao),
      data_fim |-> PyStr(FmtISO(2024, 7, 10))],
     [tipo |-> PyStr(Alagamento)],
     [bairro |-> PyStr(Norte)],
     [bairro |-> PyStr(Centro), data_inicio |-> PyStr(FmtISO(2024, 7, 10))],
     [bairro |-> PyStr(Centro), tipo |-> PyStr(Bolsao)]}

\* Geometries of the occurrences drawn as input.
Geometrias ==
    {PyNone,
     GeoDict({}, PyNone),
     GeoDict({"type"}, PyNone),
     GeoDict({"type", "coordinates"}, PyNone),
     GeoDict({"type", "coordinates"}, PyListOf(<<>>)),
     GeoDict({"type", "coordinates"}, PyListOf(<<PyFloat(-43)>>)),
     GeoDict({"type", "coordinates"}, PyListOf(<<PyStr(<<>>), PyStr(<<>>)>>)),
     GeoDict({"type", "coordinates"}, PyListOf(<<PyStr(Longitude), PyStr(<<>>)>>)),
     GeoDict({"type", "coordinates"}, PyListOf(<<PyStr(<<"a", "b", "c">>), PyFloat(-22)>>)),
     GeoDict({"type", "coordinates"}, PyListOf(<<PyFloat(-43), PyNone>>)),
     GeoDict({"type", "coordinates"}, PyListOf(<<PyStr(Longitude), PyStr(Latitude)>>))}

OcorrenciasContagem ==
    {Feature(GeoOk, p) : p \in Propriedades}
    \cup {Feature(g, Registro1) : g \in Geometrias}

InitContagem ==
    /\ pc = "inicio"
    /\ features \in SeqsUpTo(OcorrenciasContagem, MaxFeatures)
    /\ features_validas = <<>>
    /\ features_invalidas = 0
    /\ gdf_ocorrencias = Unused
    /\ contagens = Unused
    /\ data_valor = Unused
    /\ estacao = Unused
    /\ gdf_bairros = Unused
    /\ gdf_resultado = Unused
    /\ ocorrencias_por_estacao = Unused
    /\ ocorrencias_sem_data = 0
    /\ ocorrencias_sem_estacao = 0
    /\ salvo = Unused
    /\ stats = Unused
    /\ estacao_extrair = Unused

\* gdf_ocorrencias = ler_ocorrencias(caminho_ocorrencias)
LerOcorrencias ==
    /\ pc = "inicio"
    /\ features_validas' = FiltrarFeatures(features)
    /\ features_invalidas' = Len(features) - Len(FiltrarFeatures(features))
    /\ IF FromFeaturesRaises(FiltrarFeatures(features))
       THEN pc' = "erro" /\ UNCHANGED gdf_ocorrencias
       ELSE /\ pc' = "lido"
            /\ gdf_ocorrencias' = GeoDataFrame(FiltrarFeatures(features))
    /\ UNCHANGED <<data_valor, estacao, features, contagens, gdf_bairros,
                   gdf_resultado, ocorrencias_por_estacao,
                   ocorrencias_sem_data, ocorrencias_sem_estacao>>
    /\ UNCHANGED <<salvo, stats, estacao_extrair>>

\* contagem_total, ... = contar_ocorrencias_por_bairro(gdf_ocorrencias)
ContarOcorrencias ==
    /\ pc = "lido"
    /\ IF contar_ocorrencias_por_bairro(gdf_ocorrencias).raised
       THEN pc' = "erro" /\ UNCHANGED contagens
       ELSE /\ pc' = "contado"
            /\ contagens' = contar_ocorrencias_por_bairro(gdf_ocorrencias).value
    /\ UNCHANGED <<data_valor, estacao, features, features_validas,
                   features_invalidas, gdf_ocorrencias, gdf_bairros,
                   gdf_resultado, ocorrencias_por_estacao,
                   ocorrencias_sem_data, ocorrencias_sem_estacao>>
    /\ UNCHANGED <<salvo, stats, estacao_extrair>>

NextContagem == LerOcorrencias \/ ContarOcorrencias

SpecContagem == InitContagem /\ [][NextContagem]_vars

\* The dict holds exactly the given key -> count pairs.
DictIgual(d, pares) ==
    /\ DictKeys(d) = {par[1] : par \in pares}
    /\ \A par \in pares : DictGet(d, par[1], 0) = par[2]

\* C4: on the three records of the scenario the aggregator returns
\* total_by_neighborhood = {Centro: 2, Norte: 1} and
\* by_season[Centro] = {summer: 1, winter: 1}, with an empty season bucket
\* for Norte: keys are trimmed before the records are counted.
C4_CenarioChavesAparadas ==
    (pc = "contado" /\ features = Cenario) =>
        /\ DictIgual(contagens.contagem_total,
                     {<<PyStr(Centro), 2>>, <<PyStr(Norte), 1>>})
        /\ DictIgual(DictGet(contagens.contagem_por_estacao, PyStr(Centro),
                             EmptyDict),
                     {<<PyStr(Verao), 1>>, <<PyStr(Inverno), 1>>})
        /\ DictGet(contagens.contagem_por_estacao, PyStr(Norte), EmptyDict)
               = EmptyDict

\* Rows of the aggregator's input with a non-null neighbourhood.
LinhasComBairro ==
    {i \in DOMAIN gdf_ocorrencias.rows :
        notna(RowGet(gdf_ocorrencias.rows[i], "bairro"))}

\* C5: the sum over all keys of total_by_neighborhood equals the number of
\* input records whose neighbourhood is non-null.
C5_SomaDoTotal ==
    pc = "contado" =>
        DictSum(contagens.contagem_total) = Cardinality(LinhasComBairro)

C5_Witness ==
    /\ pc = "contado"
    /\ \E i \in DOMAIN gdf_ocorrencias.rows :
           isna(RowGet(gdf_ocorrencias.rows[i], "bairro"))
    /\ DictSum(contagens.contagem_total) = 2

\* Rows of neighbourhood n whose selected date field gives no season.
LinhasSemEstacao(n) ==
    {i \in DOMAIN gdf_ocorrencias.rows :
        /\ RowGet(gdf_ocorrencias.rows[i], "bairro") = n
        /\ LET col == ColunaData(gdf_ocorrencias.columns)
               v == IF col = SemColuna THEN PyNone
                    ELSE RowGet(gdf_ocorrencias.rows[i], col)
           IN  \A e \in Estacoes :
                   determinar_estacao_hemisferio_sul(v) # Return(PyStr(e))}

\* C6: for every neighbourhood n of the output, the sum over seasons of
\* by_season[n] is at most total_by_neighborhood[n], and the difference is
\* the number of n's records whose selected date field does not classify.
C6_EstacoesAteOTotal ==
    pc = "contado" =>
        \A n \in DictKeys(contagens.contagem_total) :
            LET total == DictGet(contagens.contagem_total, n, 0)
                soma == DictSum(DictGet(contagens.contagem_por_estacao, n,
                                        EmptyDict))
            IN  /\ soma <= total
                /\ total - soma = Cardinality(LinhasSemEstacao(n))

C6_Witness ==
    /\ pc = "contado"
    /\ DictGet(contagens.contagem_total, PyStr(Norte), 0) = 2
    /\ DictSum(DictGet(contagens.contagem_por_estacao, PyStr(Norte),
                       EmptyDict)) = 1

\* The aggregator has run, or failed, on the frame that was read.
Agregou == gdf_ocorrencias # Unused /\ pc \in {"contado", "erro"}

\* C11: without the 'bairro' field in the record schema the aggregator fails
\* with a schema error before computing anything and returns no tables;
\* without the type field or without every date field it does not fail and
\* returns the total table, with empty type and/or season tables.
C11_ErroDeEsquema ==
    Agregou =>
        IF "bairro" \notin gdf_ocorrencias.columns
        THEN pc = "erro" /\ contagens = Unused
        ELSE /\ pc = "contado"
             /\ \A i \in LinhasComBairro :
                    DictGet(contagens.contagem_total,
                            RowGet(gdf_ocorrencias.rows[i], "bairro"), 0)
                        = LinhasDoBairro(gdf_ocorrencias.rows,
                              RowGet(gdf_ocorrencias.rows[i], "bairro"))
             /\ DictSum(contagens.contagem_total) = Cardinality(LinhasComBairro)
             /\ "tipo" \notin gdf_ocorrencias.columns =>
                    /\ contagens.contagem_por_tipo = EmptyDict
                    /\ contagens.contagem_por_tipo_estacao = EmptyDict
             /\ ColunaData(gdf_ocorrencias.columns) = SemColuna =>
                    /\ contagens.contagem_por_estacao = EmptyDict
                    /\ contagens.contagem_por_tipo_estacao = EmptyDict

\* The three cases: no 'bairro' field in a frame with rows, no type field
\* with a season counted, and no date field with a type counted.
C11_Witness ==
    /\ Agregou
    /\ \/ /\ pc = "erro"
          /\ Len(gdf_ocorrencias.rows) = 2
          /\ "tipo" \in gdf_ocorrencias.columns
       \/ /\ pc = "contado"
          /\ "tipo" \notin gdf_ocorrencias.columns
          /\ contagens.contagem_por_estacao # EmptyDict
          /\ DictSum(contagens.contagem_total) = 2
       \/ /\ pc = "contado"
          /\ ColunaData(gdf_ocorrencias.columns) = SemColuna
          /\ contagens.contagem_por_tipo # EmptyDict
          /\ DictSum(contagens.contagem_total) = 2

\* The season that the aggregator's date column gives row i, or None.
EstacaoDoRegistro(i) ==
    LET col == ColunaData(gdf_ocorrencias.columns)
    IN  IF col = SemColuna THEN PyNone
        ELSE determinar_estacao_hemisferio_sul(
                 RowGet(gdf_ocorrencias.rows[i], col)).value

\* Rows of neighbourhood n; those with a type; those with a season.
LinhasDe(n) ==
    {i \in DOMAIN gdf_ocorrencias.rows :
        RowGet(gdf_ocorrencias.rows[i], "bairro") = n}

ComTipo(I) == {i \in I : notna(RowGet(gdf_ocorrencias.rows[i], "tipo"))}

ComEstacao(I) == {i \in I : EstacaoDoRegistro(i) # PyNone}

\* Sum of the counts of a two-level table.
RECURSIVE DictSum2(_)
DictSum2(d) == IF d = <<>> THEN 0 ELSE DictSum(Head(d).v) + DictSum2(Tail(d))

\* C17: a record with a non-null neighbourhood and a null type is left out
\* of by_type and by_type_and_season only: it is counted in
\* total_by_neighborhood and, when its date classifies, in by_season.
C17_TipoNuloSoForaDosTipos ==
    pc = "contado" =>
        \A i \in LinhasComBairro :
            LET n == RowGet(gdf_ocorrencias.rows[i], "bairro")
            IN  /\ DictGet(contagens.contagem_total, n, 0)
                       = Cardinality(LinhasDe(n))
                /\ DictSum(DictGet(contagens.contagem_por_estacao, n,
                                   EmptyDict))
                       = Cardinality(ComEstacao(LinhasDe(n)))
                /\ DictSum(DictGet(contagens.contagem_por_tipo, n, EmptyDict))
                       = Cardinality(ComTipo(LinhasDe(n)))
                /\ DictSum2(DictGet(contagens.contagem_por_tipo_estacao, n,
                                    EmptyDict))
                       = Cardinality(ComTipo(ComEstacao(LinhasDe(n))))

\* Two records of Centro with a date of a season, one of them of null type.
C17_Witness ==
    /\ pc = "contado"
    /\ \E i \in LinhasDe(PyStr(Centro)) :
           RowGet(gdf_ocorrencias.rows[i], "tipo") = PyNone
    /\ DictGet(contagens.contagem_total, PyStr(Centro), 0) = 2
    /\ DictSum(DictGet(contagens.contagem_por_estacao, PyStr(Centro),
                       EmptyDict)) = 2
    /\ DictSum(DictGet(contagens.contagem_por_tipo, PyStr(Centro),
                       EmptyDict)) = 1
    /\ DictSum2(DictGet(contagens.contagem_por_tipo_estacao, PyStr(Centro),
                        EmptyDict)) = 1

\* The geometry is present and its first two coordinate values are present
\* and parse as numbers.
GeometriaLegivel(g) ==
    /\ g.kind = "dict"
    /\ "coordinates" \in g.keys
    /\ g.coordinates.kind = "list"
    /\ Len(g.coordinates.items) >= 2
    /\ \A i \in 1..2 :
           /\ g.coordinates.items[i] # PyNone
           /\ g.coordinates.items[i] # PyStr(<<>>)
           /\ float_ok(g.coordinates.items[i])

\* C10: the reader returns only features whose geometry is present and
\* whose two coordinate values are present and numeric; any other feature
\* is rejected, counted as invalid and never reaches the aggregator.
C10_SoGeometriasLegiveis ==
    pc # "inicio" =>
        /\ \A i \in DOMAIN features_validas :
               GeometriaLegivel(features_validas[i].geometry)
        /\ features_invalidas =
               Cardinality({i \in DOMAIN features :
                               ~GeometriaLegivel(features[i].geometry)})
        /\ pc = "contado" =>
               \A i \in DOMAIN gdf_ocorrencias.rows :
                   GeometriaLegivel(gdf_ocorrencias.rows[i].geometry)

(***************************************************************************)
(* Specification of the whole counting script: reader, aggregator and      *)
(* enricher                                                                *)
(***************************************************************************)
\* Longest occurrence document and largest boundary layer drawn as input.
MaxOcorrencias == 2

MaxBairros == 2

AlagamentoEspaco == Alagamento \o <<" ">>

LaminaDagua == <<"L", "a^">> \o Chars("mina d'") \o <<"a'">> \o Chars("gua")

Erosao == Chars("Eros") \o <<"a~", "o">>

Sul == Chars("Sul")

\* Occurrences with a readable point: the scenario's records, a type with
\* a trailing blank, a type of the third category, a type of no known
\* category, a null type and a null neighbourhood.
OcorrenciasEnriquecimento ==
    {Feature(GeoOk, p) : p \in
        {Registro1, Registro2, Registro3,
         [bairro |-> PyStr(Centro), tipo |-> PyStr(AlagamentoEspaco),
          data_inicio |-> PyStr(FmtISO(2024, 7, 10))],
         [bairro |-> PyStr(Norte), tipo |-> PyStr(LaminaDagua),
          data_inicio |-> PyStr(FmtISO(2024, 1, 15))],
         [bairro |-> PyStr(Norte), tipo |-> PyStr(Erosao),
          data_inicio |-> PyStr(FmtISO(2024, 10, 5))],
         [bairro |-> PyStr(Centro), tipo |-> PyNone,
          data_inicio |-> PyStr(FmtISO(2024, 3, 20))],
         [bairro |-> PyNone, tipo |-> PyStr(Alagamento),
          data_inicio |-> PyStr(FmtISO(2024, 1, 15))]}}

Nome == Chars("NOME")

NmBairro == Chars("NM_BAIRRO")

ObjectId == Chars("OBJECTID")

Poligono(area_m2) == [kind |-> "polygon", area_m2 |-> area_m2]

\* Name, st_areasha attribute (m2) and area of the projected geometry (m2)
\* of the polygons drawn as input.
Bairros ==
    {<<PyStr(<<" ">> \o Centro \o <<" ">>), 0, 1500000>>,
     <<PyStr(Norte), 500000, 500000>>,
     <<PyStr(Sul), 0, 3000000>>}

\* A layer with the recognized name column NOME and the area attribute.
CamadaComNome(bs) ==
    [columns |-> <<Nome, StAreasha, Geometry>>,
     objeto |-> {Nome},
     rows |-> [i \in DOMAIN bs |->
                  [c \in {Nome, StAreasha, Geometry} |->
                      IF c = Nome THEN bs[i][1]
                      ELSE IF c = StAreasha THEN PyFloat(bs[i][2])
                      ELSE Poligono(bs[i][3])]]]

\* A layer whose name is in the first text column and that has no area
\* attribute.
CamadaComTexto(bs) ==
    [columns |-> <<ObjectId, NmBairro, Geometry>>,
     objeto |-> {NmBairro},
     rows |-> [i \in DOMAIN bs |->
                  [c \in {ObjectId, NmBairro, Geometry} |->
                      IF c = ObjectId THEN PyInt(i)
                      ELSE IF c = NmBairro THEN bs[i][1]
                      ELSE Poligono(bs[i][3])]]]

\* A layer without any text column.
CamadaSemTexto(bs) ==
    [columns |-> <<ObjectId, Geometry>>,
     objeto |-> {},
     rows |-> [i \in DOMAIN bs |->
                  [c \in {ObjectId, Geometry} |->
                      IF c = ObjectId THEN PyInt(i) ELSE Poligono(bs[i][3])]]]

\* The boundary layers drawn as input; a layer has at least one polygon and
\* holds a polygon once.
Camadas ==
    LET listas == {bs \in SeqsUpTo(Bairros, MaxBairros) :
                       /\ bs # <<>>
                       /\ \A i, j \in DOMAIN bs : i # j => bs[i] # bs[j]}
    IN  {CamadaComNome(bs) : bs \in listas}
        \cup {CamadaComTexto(bs) : bs \in listas}
        \cup {CamadaSemTexto(<<bs>>) : bs \in Bairros}

InitEnriquecimento ==
    /\ pc = "inicio"
    /\ features \in SeqsUpTo(OcorrenciasEnriquecimento, MaxOcorrencias)
    /\ features_validas = <<>>
    /\ features_invalidas = 0
    /\ gdf_ocorrencias = Unused
    /\ contagens = Unused
    /\ data_valor = Unused
    /\ estacao = Unused
    /\ gdf_bairros = Unused
    /\ gdf_resultado = Unused
    /\ ocorrencias_por_estacao = Unused
    /\ ocorrencias_sem_data = 0
    /\ ocorrencias_sem_estacao = 0
    /\ salvo = Unused
    /\ stats = Unused
    /\ estacao_extrair = Unused

\* gdf_resultado = adicionar_contagens_ao_shapefile(gdf_bairros, ...), on
\* the layer read from the shapefile.
AdicionarContagens ==
    /\ pc = "contado"
    /\ \E camada \in Camadas :
           /\ gdf_bairros' = camada
           /\ LET r == adicionar_contagens_ao_shapefile(camada, contagens)
              IN  IF r.raised
                  THEN pc' = "erro" /\ UNCHANGED gdf_resultado
                  ELSE pc' = "fim" /\ gdf_resultado' = r.value
    /\ UNCHANGED <<data_valor, estacao, features, features_validas,
                   features_invalidas, gdf_ocorrencias, contagens,
                   ocorrencias_por_estacao, ocorrencias_sem_data,
                   ocorrencias_sem_estacao>>
    /\ UNCHANGED <<salvo, stats, estacao_extrair>>

NextEnriquecimento == LerOcorrencias \/ ContarOcorrencias \/ AdicionarContagens

SpecEnriquecimento == InitEnriquecimento /\ [][NextEnriquecimento]_vars

\* The normalized name of polygon i of the layer.
NomeDoPoligono(i) ==
    strip(str(gdf_bairros.rows[i][ColunaBairro(gdf_bairros).chars]))

\* The normalized keys of the total table.
ChavesDoTotal ==
    {strip(str(k)) : k \in DictKeys(contagens.contagem_total)}

\* The column holds a count.
EhContagem(c) ==
    Take(c, 9) = Chars("contagem_") \/ Take(c, 5) = Chars("cont_")

\* C7: the enricher outputs every input polygon exactly once and in the
\* same order; a polygon whose normalized name matches no count-table key
\* gets 0 for the total and for every type, season and type-by-season count.
C7_TodosOsPoligonos ==
    pc = "fim" =>
        /\ Len(gdf_resultado) = Len(gdf_bairros.rows)
        /\ \A i \in DOMAIN gdf_bairros.rows :
               /\ \A c \in DOMAIN gdf_bairros.rows[i] :
                      /\ c \in DOMAIN gdf_resultado[i]
                      /\ gdf_resultado[i][c] = gdf_bairros.rows[i][c]
               /\ ContagemTotal \in DOMAIN gdf_resultado[i]
               /\ NomeDoPoligono(i) \notin ChavesDoTotal =>
                      \A c \in DOMAIN gdf_resultado[i] :
                          EhContagem(c) => gdf_resultado[i][c] = PyInt(0)

C7_Witness ==
    /\ pc = "fim"
    /\ Len(gdf_resultado) = 2
    /\ NomeDoPoligono(1) \notin ChavesDoTotal
    /\ Chars("cont_alag_verao") \in DOMAIN gdf_resultado[1]
    /\ gdf_resultado[1][Chars("cont_alag_verao")] = PyInt(0)
    /\ gdf_resultado[2][ContagemTotal] = PyInt(2)

\* The count column of a density column.
ColunaDeContagem(c) ==
    IF c = Chars("dens_km2") THEN ContagemTotal
    ELSE IF c = Chars("dens_lamina") THEN ContagemLamina
    ELSE IF c = Chars("dens_bolsao") THEN ContagemBolsao
    ELSE IF c = Chars("dens_alag") THEN ContagemAlagamento
    ELSE Chars("cont_") \o SubSeq(c, 6, Len(c))

\* v is the number 0.
EhZero(v) ==
    \/ v = PyInt(0)
    \/ v.kind = "float" /\ v.num = 0

\* C8: every density column (total, the three categories, each season,
\* each type-by-season combination) equals count / area_km2 when
\* area_km2 > 0 and 0 otherwise; no division by zero occurs.
C8_Densidade ==
    pc = "fim" =>
        \A i \in DOMAIN gdf_resultado :
            LET row == gdf_resultado[i]
                area == row[AreaKm2]
            IN  /\ {Chars("dens_km2"), Chars("dens_lamina"),
                    Chars("dens_bolsao"), Chars("dens_alag")}
                       \subseteq DOMAIN row
                /\ \A e \in Estacoes :
                       Chars("cont_") \o e \in DOMAIN row =>
                           Chars("dens_") \o e \in DOMAIN row
                /\ \A c \in DOMAIN row :
                       Take(c, 5) = Chars("dens_") =>
                           /\ ColunaDeContagem(c) \in DOMAIN row
                           /\ row[c].kind \in {"int", "float"}
                           /\ IF area.num > 0
                              THEN /\ row[c].kind = "float"
                                   /\ row[c].den > 0
                                   /\ row[c].num * area.num =
                                          row[ColunaDeContagem(c)].val
                                              * area.den * row[c].den
                              ELSE EhZero(row[c])

C8_Witness ==
    /\ pc = "fim"
    /\ Len(gdf_resultado) = 2
    /\ gdf_resultado[1][AreaKm2].num = 0
    /\ gdf_resultado[1][ContagemTotal] = PyInt(1)
    /\ EhZero(gdf_resultado[1][Chars("dens_km2")])
    /\ gdf_resultado[2][AreaKm2] = Frac(1, 2)
    /\ Chars("cont_lamina_verao") \in DOMAIN gdf_resultado[2]
    /\ gdf_resultado[2][Chars("cont_lamina_verao")] = PyInt(1)
    /\ gdf_resultado[2][Chars("dens_lamina_verao")] = Frac(2, 1)

(***************************************************************************)
(* Season splitter: extrair_ocorrencias_por_estacao.py                     *)
(***************************************************************************)
\* Variant of the splitter's chain whose winter starts on Jun 21: a copy that
\* has drifted from the aggregation script's by one day.
extrair_EstacaoDeMesDiaInvernoEm21(mes, dia) ==
    IF mes = 12 /\ dia >= 21 THEN PyStr(Verao)
    ELSE IF mes \in {1, 2} THEN PyStr(Verao)
    ELSE IF mes = 3 /\ dia < 20 THEN PyStr(Verao)
    ELSE IF mes = 3 /\ dia >= 20 THEN PyStr(Outono)
    ELSE IF mes \in {4, 5} THEN PyStr(Outono)
    ELSE IF mes = 6 /\ dia < 21 THEN PyStr(Outono)
    ELSE IF mes = 6 /\ dia >= 21 THEN PyStr(Inverno)
    ELSE IF mes \in {7, 8} THEN PyStr(Inverno)
    ELSE IF mes = 9 /\ dia < 22 THEN PyStr(Inverno)
    ELSE IF mes = 9 /\ dia >= 22 THEN PyStr(Primavera)
    ELSE IF mes \in {10, 11} THEN PyStr(Primavera)
    ELSE IF mes = 12 /\ dia < 21 THEN PyStr(Primavera)
    ELSE PyNone

\* The if/elif chain on (mes, dia) of the splitter's copy of the
\* classifier.
extrair_EstacaoDeMesDia(mes, dia) ==
    IF mes = 12 /\ dia >= 21 THEN PyStr(Verao)
    ELSE IF mes \in {1, 2} THEN PyStr(Verao)
    ELSE IF mes = 3 /\ dia < 20 THEN PyStr(Verao)
    ELSE IF mes = 3 /\ dia >= 20 THEN PyStr(Outono)
    ELSE IF mes \in {4, 5} THEN PyStr(Outono)
    ELSE IF mes = 6 /\ dia < 20 THEN PyStr(Outono)
    ELSE IF mes = 6 /\ dia >= 20 THEN PyStr(Inverno)
    ELSE IF mes \in {7, 8} THEN PyStr(Inverno)
    ELSE IF mes = 9 /\ dia < 22 THEN PyStr(Inverno)
    ELSE IF mes = 9 /\ dia >= 22 THEN PyStr(Primavera)
    ELSE IF mes \in {10, 11} THEN PyStr(Primavera)
    ELSE IF mes = 12 /\ dia < 21 THEN PyStr(Primavera)
    ELSE PyNone

\* The body of the try block of the splitter's copy.
extrair_EstacaoTry(v) ==
    IF v.kind = "list" THEN Raise
    ELSE IF isna(v) THEN Return(PyNone)
    ELSE IF v.kind \in {"Timestamp", "datetime"}
         THEN Return(extrair_EstacaoDeMesDia(v.month, v.day))
    ELSE IF v.kind = "str"
         THEN LET data == to_datetime(v.chars)
              IN  IF isna(data) THEN Return(PyNone)
                  ELSE Return(extrair_EstacaoDeMesDia(data.month, data.day))
    ELSE Return(PyNone)

\* The splitter's copy of determinar_estacao_hemisferio_sul.
extrair_determinar_estacao_hemisferio_sul(v) ==
    IF extrair_EstacaoTry(v).raised THEN Return(PyNone)
    ELSE extrair_EstacaoTry(v)

\* colunas_data = ['data_inicio', 'data_fim', 'data_particao']
extrair_colunas_data == <<"data_inicio", "data_fim", "data_particao">>

\* {}: the default of feature.get('properties', {}).
SemPropriedades == [c \in {} |-> PyNone]

\* feature.get('properties', {})
PropsDe(feature) ==
    IF "properties" \in DOMAIN feature THEN feature.properties
    ELSE SemPropriedades

\* The first candidate column that some feature of the collection has.
ColunaDataDeTodas(fs) ==
    LET todas == UNION {IF PropsDe(fs[i]) = PyNone THEN {}
                        ELSE DOMAIN PropsDe(fs[i]) : i \in DOMAIN fs}
        presentes == {i \in DOMAIN extrair_colunas_data :
                          extrair_colunas_data[i] \in todas}
    IN  IF presentes = {} THEN SemColuna
        ELSE extrair_colunas_data[
                 CHOOSE i \in presentes : \A j \in presentes : i <= j]

\* coluna_data_disponivel: the first candidate column among the properties
\* of the first feature, or None.
ColunaDataDisponivel(fs) ==
    LET props == PropsDe(fs[1])
        presentes == {i \in DOMAIN extrair_colunas_data :
                          extrair_colunas_data[i] \in DOMAIN props}
    IN  IF presentes = {} THEN SemColuna
        ELSE extrair_colunas_data[
                 CHOOSE i \in presentes : \A j \in presentes : i <= j]

\* props.get(coluna_data_disponivel)
DataValor(props, col) ==
    IF col \in DOMAIN props THEN props[col] ELSE PyNone

\* data_valor is None or (isinstance(data_valor, str) and
\* data_valor.strip() == '')
SemData(v) ==
    \/ v = PyNone
    \/ v.kind = "str" /\ strip(v.chars) = <<>>

\* The state of the loop: the partitions, the two tallies, and whether an
\* exception left the function.
Extracao(por_estacao, sem_data, sem_estacao) ==
    [raised |-> FALSE, ocorrencias_por_estacao |-> por_estacao,
     ocorrencias_sem_data |-> sem_data,
     ocorrencias_sem_estacao |-> sem_estacao]

\* One iteration of "for feature in features".  A feature whose properties
\* are null raises AttributeError at props.get.
ProcessarFeature(acc, feature, col) ==
    LET props == PropsDe(feature)
        valor == DataValor(props, col)
        est == extrair_determinar_estacao_hemisferio_sul(valor).value
    IN  IF acc.raised THEN acc
        ELSE IF props = PyNone THEN [acc EXCEPT !.raised = TRUE]
        ELSE IF SemData(valor)
             THEN [acc EXCEPT !.ocorrencias_sem_data = @ + 1]
        ELSE IF est = PyNone
             THEN [acc EXCEPT !.ocorrencias_sem_estacao = @ + 1]
        ELSE [acc EXCEPT !.ocorrencias_por_estacao =
                 DictSet(@, est, Append(DictGet(@, est, <<>>), feature))]

RECURSIVE ProcessarFeatures(_, _, _)
ProcessarFeatures(acc, fs, col) ==
    IF fs = <<>> THEN acc
    ELSE ProcessarFeatures(ProcessarFeature(acc, Head(fs), col), Tail(fs), col)

\* The whole function.  An empty collection and a first feature without a
\* date column return the empty mapping before the loop; null properties
\* of the first feature raise TypeError at "col in props".
extrair_ocorrencias_por_estacao(fs) ==
    IF fs = <<>> THEN Extracao(EmptyDict, 0, 0)
    ELSE IF PropsDe(fs[1]) = PyNone
         THEN [Extracao(EmptyDict, 0, 0) EXCEPT !.raised = TRUE]
    ELSE IF ColunaDataDisponivel(fs) = SemColuna
         THEN Extracao(EmptyDict, 0, 0)
    ELSE ProcessarFeatures(Extracao(EmptyDict, 0, 0), fs,
                           ColunaDataDisponivel(fs))

(***************************************************************************)
(* Specification of the splitting script                                   *)
(***************************************************************************)
\* Longest feature collection drawn as input of the splitter.
MaxRegistros == 3

\* Properties of the features drawn as input: dates of the four seasons,
\* a null, a blank, an unparseable and a numeric date, a date in the second
\* candidate field only, dates in two fields, and no date field at all.
PropriedadesExtracao ==
    {[data_inicio |-> PyStr(FmtISO(2024, 1, 15))],
     [data_inicio |-> PyStr(FmtISO(2024, 3, 20))],
     [data_inicio |-> PyStr(FmtISO(2024, 7, 10))],
     [data_inicio |-> PyStr(FmtISO(2023, 9, 22))],
     [data_inicio |-> PyNone],
     [data_inicio |-> PyStr(<<" ", " ">>)],
     [data_inicio |-> PyStr(NaoEData)],
     [data_inicio |-> PyInt(20240115)],
     [data_fim |-> PyStr(FmtISO(2024, 7, 10))],
     [data_inicio |-> PyStr(FmtISO(2024, 1, 15)),
      data_fim |-> PyStr(FmtISO(2024, 7, 10))],
     [bairro |-> PyStr(Centro)],
     PyNone}

\* The features drawn as input; one of them has no "properties" member.
OcorrenciasExtracao ==
    {Feature(GeoOk, p) : p \in PropriedadesExtracao}
    \cup {[geometry |-> GeoOk]}

InitExtracao ==
    /\ pc = "inicio"
    /\ features \in SeqsUpTo(OcorrenciasExtracao, MaxRegistros)
    /\ features_validas = <<>>
    /\ features_invalidas = 0
    /\ gdf_ocorrencias = Unused
    /\ contagens = Unused
    /\ data_valor = Unused
    /\ estacao = Unused
    /\ gdf_bairros = Unused
    /\ gdf_resultado = Unused
    /\ ocorrencias_por_estacao = Unused
    /\ ocorrencias_sem_data = 0
    /\ ocorrencias_sem_estacao = 0
    /\ salvo = Unused
    /\ stats = Unused
    /\ estacao_extrair = Unused

\* ocorrencias_por_estacao = extrair_ocorrencias_por_estacao(data_geojson)
ExtrairOcorrencias ==
    /\ pc = "inicio"
    /\ LET r == extrair_ocorrencias_por_estacao(features)
       IN  IF r.raised
           THEN /\ pc' = "erro"
                /\ UNCHANGED <<ocorrencias_por_estacao, ocorrencias_sem_data,
                               ocorrencias_sem_estacao>>
           ELSE /\ pc' = "fim"
                /\ ocorrencias_por_estacao' = r.ocorrencias_por_estacao
                /\ ocorrencias_sem_data' = r.ocorrencias_sem_data
                /\ ocorrencias_sem_estacao' = r.ocorrencias_sem_estacao
    /\ UNCHANGED <<data_valor, estacao, features, features_validas,
                   features_invalidas, gdf_ocorrencias, contagens,
                   gdf_bairros, gdf_resultado>>
    /\ UNCHANGED <<salvo, stats, estacao_extrair>>

NextExtracao == ExtrairOcorrencias

SpecExtracao == InitExtracao /\ [][NextExtracao]_vars

\* Number of positions of the list that hold the value f.
Vezes(lista, f) == Cardinality({i \in DOMAIN lista : lista[i] = f})

\* Number of times the feature f is in the partition of the season e.
VezesNaEstacao(e, f) ==
    Vezes(DictGet(ocorrencias_por_estacao, PyStr(e), <<>>), f)

\* The value v is a date that the classifier gives a season.
DataClassificavel(v) ==
    /\ v # PyNone
    /\ ~(v.kind = "str" /\ strip(v.chars) = <<>>)
    /\ determinar_estacao_hemisferio_sul(v).value # PyNone

\* The date of a feature read from the first candidate field that the
\* feature itself has.
DataPropria(f) ==
    LET props == PropsDe(f)
        meus == {i \in DOMAIN colunas_data : colunas_data[i] \in DOMAIN props}
    IN  IF meus = {} THEN PyNone
        ELSE props[colunas_data[CHOOSE i \in meus : \A j \in meus : i <= j]]

\* The date of a feature read from the first candidate field that the
\* first feature of the input has; missing when it has none.
DataPelaPrimeira(f) ==
    LET props == PropsDe(features[1])
        seus == {i \in DOMAIN colunas_data : colunas_data[i] \in DOMAIN props}
        col == colunas_data[CHOOSE i \in seus : \A j \in seus : i <= j]
    IN  IF seus = {} \/ col \notin DOMAIN PropsDe(f) THEN PyNone
        ELSE PropsDe(f)[col]

\* The partitions are keyed by seasons and no feature is in two of them.
ParticoesDisjuntas ==
    /\ DictKeys(ocorrencias_por_estacao) \subseteq {PyStr(e) : e \in Estacoes}
    /\ \A e1, e2 \in Estacoes : \A f \in OcorrenciasExtracao :
           e1 # e2 /\ VezesNaEstacao(e1, f) > 0 => VezesNaEstacao(e2, f) = 0

\* Total number of times the feature f is in the partitions.
VezesNasParticoes(f) ==
    VezesNaEstacao(Verao, f) + VezesNaEstacao(Outono, f)
        + VezesNaEstacao(Inverno, f) + VezesNaEstacao(Primavera, f)

ColunasDeCategoria == {ContagemAlagamento, ContagemBolsao, ContagemLamina}

\* Rows read by the aggregator whose normalized neighbourhood is the
\* normalized name of polygon i.
RegistrosDoPoligono(i) ==
    {j \in DOMAIN gdf_ocorrencias.rows :
        /\ notna(RowGet(gdf_ocorrencias.rows[j], "bairro"))
        /\ strip(str(RowGet(gdf_ocorrencias.rows[j], "bairro")))
               = NomeDoPoligono(i)}

\* Those of them whose type is classified into the category column col.
RegistrosDaCategoria(i, col) ==
    {j \in RegistrosDoPoligono(i) :
        /\ notna(RowGet(gdf_ocorrencias.rows[j], "tipo"))
        /\ NomeColuna(RowGet(gdf_ocorrencias.rows[j], "tipo").chars) = col}

\* C12: the output has the three known category count fields for every
\* polygon, with value 0 when no record of that category exists, for any
\* count tables, the empty ones included.
C12_TresCategorias ==
    pc = "fim" =>
        \A i \in DOMAIN gdf_resultado : \A col \in ColunasDeCategoria :
            /\ col \in DOMAIN gdf_resultado[i]
            /\ gdf_resultado[i][col].kind = "int"
            /\ RegistrosDaCategoria(i, col) = {} =>
                   gdf_resultado[i][col] = PyInt(0)

\* Two polygons enriched with empty tables: every record read has a null
\* neighbourhood.
C12_Witness ==
    /\ pc = "fim"
    /\ Len(gdf_resultado) = 2
    /\ Len(gdf_ocorrencias.rows) = 1
    /\ contagens.contagem_total = EmptyDict
    /\ contagens.contagem_por_tipo = EmptyDict
    /\ \A col \in ColunasDeCategoria : gdf_resultado[2][col] = PyInt(0)

\* Sum of the counts of the table under the keys whose normalized form is
\* the given name.
RECURSIVE SomaDasChaves(_, _)
SomaDasChaves(d, nome) ==
    IF d = <<>> THEN 0
    ELSE (IF strip(str(Head(d).k)) = nome THEN Head(d).v ELSE 0)
             + SomaDasChaves(Tail(d), nome)

\* The same sum for the season e of a two-level table.
RECURSIVE SomaDasChavesEm(_, _, _)
SomaDasChavesEm(d, nome, e) ==
    IF d = <<>> THEN 0
    ELSE (IF strip(str(Head(d).k)) = nome
          THEN DictGet(Head(d).v, PyStr(e), 0) ELSE 0)
             + SomaDasChavesEm(Tail(d), nome, e)

\* C18: join normalization loses no counts: for every polygon the enriched
\* contagem_total is the sum of total_by_neighborhood[k] over the keys k
\* whose normalized form is the polygon's normalized name, also when
\* several raw keys normalize to the same name; the same for the season
\* table.
C18_JuncaoSemPerdas ==
    pc = "fim" =>
        \A i \in DOMAIN gdf_resultado :
            /\ gdf_resultado[i][ContagemTotal]
                   = PyInt(SomaDasChaves(contagens.contagem_total,
                                         NomeDoPoligono(i)))
            /\ \A e \in Estacoes :
                   Chars("cont_") \o e \in DOMAIN gdf_resultado[i] =>
                       gdf_resultado[i][Chars("cont_") \o e]
                           = PyInt(SomaDasChavesEm(
                                       contagens.contagem_por_estacao,
                                       NomeDoPoligono(i), e))

\* C19: for every polygon and each of the three known categories, the
\* category count field is the number of counted records of that
\* neighbourhood whose type string is classified into the category, also
\* when two or more type strings map to the same category field.
C19_ContagemDaCategoria ==
    pc = "fim" =>
        \A i \in DOMAIN gdf_resultado : \A col \in ColunasDeCategoria :
            gdf_resultado[i][col]
                = PyInt(Cardinality(RegistrosDaCategoria(i, col)))

\* The type strings of the type table.
TiposContados ==
    UNION {DictKeys(contagens.contagem_por_tipo[j].v) :
               j \in DOMAIN contagens.contagem_por_tipo}

\* The type-by-season column of the type string t and the season e.
ColunaTipoEstacao(t, e) ==
    Chars("cont_") \o TipoCurto(NomeColuna(t.chars)) \o <<"_">> \o e

\* Records of polygon i of the type string t with the season e.
RegistrosTipoEstacao(i, t, e) ==
    {j \in RegistrosDoPoligono(i) :
        /\ RowGet(gdf_ocorrencias.rows[j], "tipo") = t
        /\ EstacaoDoRegistro(j) = PyStr(e)}

\* C20: for every polygon, every type string of by_type and every season,
\* the enriched type-by-season count is
\* by_type_and_season[neighbourhood][type][season] (0 when absent),
\* whatever the leading or trailing whitespace of the type string.
C20_TipoPorEstacao ==
    (pc = "fim" /\ contagens.contagem_por_tipo_estacao # EmptyDict) =>
        \A i \in DOMAIN gdf_resultado : \A t \in TiposContados :
            \A e \in Estacoes :
                /\ ColunaTipoEstacao(t, e) \in DOMAIN gdf_resultado[i]
                /\ gdf_resultado[i][ColunaTipoEstacao(t, e)]
                       = PyInt(Cardinality(RegistrosTipoEstacao(i, t, e)))

\* The density column that corresponds to a count column: dens_km2 for the
\* total, dens_<short name> for a type column, dens_<rest> for cont_<rest>.
ColunaDeDensidade(c) ==
    IF c = ContagemTotal THEN Chars("dens_km2")
    ELSE IF Take(c, 9) = Chars("contagem_")
         THEN Chars("dens_") \o TipoCurto(c)
    ELSE Chars("dens_") \o SubSeq(c, 6, Len(c))

\* C13: every count column added to the output (total, each type column,
\* the generated ones for unrecognized types included, each season column,
\* each type-by-season column) has its density column, computed with the
\* same zero-area policy.
C13_UmaDensidadePorContagem ==
    pc = "fim" =>
        \A i \in DOMAIN gdf_resultado :
            LET row == gdf_resultado[i]
            IN  \A c \in DOMAIN row :
                    EhContagem(c) =>
                        /\ ColunaDeDensidade(c) \in DOMAIN row
                        /\ row[ColunaDeDensidade(c)]
                               = Densidade(row[c], row[AreaKm2])

\* The limit of the shapefile on the length of a field name, named in
\* the comment of line 446.
LimiteNomeCampo == 10

\* The fields that the enricher added to polygon i.
CamposGerados(i) == DOMAIN gdf_resultado[i] \ DOMAIN gdf_bairros.rows[i]

\* C14: every field name that the enricher generates (counts and densities
\* of the total, the types, the seasons and the type-by-season
\* combinations) has at most 10 characters.
C14_NomesCurtos ==
    pc = "fim" =>
        \A i \in DOMAIN gdf_resultado :
            \A c \in CamposGerados(i) : Len(c) <= LimiteNomeCampo

(***************************************************************************)
(* Further properties of the splitter                                      *)
(***************************************************************************)
\* Number of features placed in the season partitions.
RECURSIVE NasParticoes(_)
NasParticoes(d) ==
    IF d = <<>> THEN 0 ELSE Len(Head(d).v) + NasParticoes(Tail(d))

\* C15: the splitter accounts for every input feature: the number of
\* features placed in season partitions, plus the tally of features with a
\* missing or blank date, plus the tally of features whose date is Unknown,
\* is the number of input features, also when the first feature carries
\* none of the recognized date fields.
C15_TodasContabilizadas ==
    pc = "fim" =>
        NasParticoes(ocorrencias_por_estacao) + ocorrencias_sem_data
            + ocorrencias_sem_estacao = Len(features)

(***************************************************************************)
(* GeoJSON corrector: fix_all_geojson.py                                   *)
(***************************************************************************)
\* feature.get(key)
FeatureGet(feature, key) ==
    IF key \in DOMAIN feature THEN feature[key] ELSE PyNone

\* The truth value of feature.get('geometry'): None, an empty mapping, an
\* empty list and an empty text are false.
GeometriaVerdadeira(g) ==
    CASE g.kind = "None" -> FALSE
      [] g.kind = "dict" -> g.keys # {}
      [] g.kind = "list" -> g.items # <<>>
      [] g.kind = "str" -> g.chars # <<>>

\* feature['geometry'].get('coordinates')
CoordenadasDe(g) ==
    IF "coordinates" \in g.keys THEN g.coordinates ELSE PyNone

\* ["", ""]
DuasVazias == PyListOf(<<PyStr(<<>>), PyStr(<<>>)>>)

\* The condition of lines 71-73.
TemCoordenadasVazias(feature) ==
    LET g == FeatureGet(feature, "geometry")
    IN  /\ GeometriaVerdadeira(g)
        /\ g.kind = "dict"
        /\ CoordenadasDe(g) = DuasVazias

\* The truth value of feature.get('properties'): None and {} are false.
PropsVerdadeiras(p) == p # PyNone /\ DOMAIN p # {}

\* props.get(campo) == ""
CampoVazio(feature, campo) ==
    LET p == FeatureGet(feature, "properties")
    IN  /\ PropsVerdadeiras(p)
        /\ campo \in DOMAIN p
        /\ p[campo] = PyStr(<<>>)

\* Lines 71-76: a geometry with empty coordinates becomes null.  The state
\* e of one iteration holds the feature, the statistics and the flag
\* "corrigido".
CorrigirGeometria(e) ==
    IF TemCoordenadasVazias(e.feature)
    THEN [feature |-> [e.feature EXCEPT !.geometry = PyNone],
          stats |-> [e.stats EXCEPT !.coordenadas_vazias = @ + 1],
          corrigido |-> TRUE]
    ELSE e

\* Lines 81-84: an empty latitude becomes null.
CorrigirLatitude(e) ==
    IF CampoVazio(e.feature, "latitude")
    THEN [feature |-> [e.feature EXCEPT !.properties.latitude = PyNone],
          stats |-> [e.stats EXCEPT !.latitude_vazia = @ + 1],
          corrigido |-> TRUE]
    ELSE e

\* Variant of the longitude step that corrects without counting.
CorrigirLongitudeSemContar(e) ==
    IF CampoVazio(e.feature, "longitude")
    THEN [e EXCEPT !.feature.properties.longitude = PyNone,
                   !.corrigido = TRUE]
    ELSE e

\* Lines 85-88: an empty longitude becomes null.
CorrigirLongitude(e) ==
    IF CampoVazio(e.feature, "longitude")
    THEN [feature |-> [e.feature EXCEPT !.properties.longitude = PyNone],
          stats |-> [e.stats EXCEPT !.longitude_vazia = @ + 1],
          corrigido |-> TRUE]
    ELSE e

\* The body of the loop of lines 67-91 on one feature.
CorrigirFeature(acc, feature) ==
    LET e == CorrigirLongitude(CorrigirLatitude(CorrigirGeometria(
                 [feature |-> feature, stats |-> acc.stats,
                  corrigido |-> FALSE])))
    IN  [data |-> Append(acc.data, e.feature),
         stats |-> e.stats,
         features_corrigidas |->
             acc.features_corrigidas + (IF e.corrigido THEN 1 ELSE 0)]

RECURSIVE CorrigirFeatures(_, _)
CorrigirFeatures(acc, fs) ==
    IF fs = <<>> THEN acc
    ELSE CorrigirFeatures(CorrigirFeature(acc, Head(fs)), Tail(fs))

\* The whole function on a document that was read: the features written
\* to the destination and the statistics returned.
corrigir_geojson(fs) ==
    CorrigirFeatures([data |-> <<>>,
                      stats |-> [coordenadas_vazias |-> 0,
                                 latitude_vazia |-> 0,
                                 longitude_vazia |-> 0,
                                 total_features |-> Len(fs)],
                      features_corrigidas |-> 0], fs)

(***************************************************************************)
(* Specification of the correcting script                                  *)
(***************************************************************************)
\* Longest document drawn as input of the corrector.
MaxDocumento == 2

\* Geometries of the documents: null, an empty mapping, empty coordinates
\* with and without a type, numeric coordinates, three empty values, one
\* empty and one numeric value, no coordinates, and a list in the place of
\* the mapping.
GeometriasCorrecao ==
    {PyNone,
     GeoDict({}, PyNone),
     GeoDict({"type", "coordinates"}, DuasVazias),
     GeoDict({"coordinates"}, DuasVazias),
     GeoDict({"type", "coordinates"}, PyListOf(<<PyFloat(-43), PyFloat(-22)>>)),
     GeoDict({"type", "coordinates"},
             PyListOf(<<PyStr(<<>>), PyStr(<<>>), PyStr(<<>>)>>)),
     GeoDict({"type", "coordinates"}, PyListOf(<<PyStr(<<>>), PyFloat(-22)>>)),
     GeoDict({"type"}, PyNone),
     DuasVazias}

\* Properties of the documents.
PropriedadesCorrecao ==
    {PyNone,
     SemPropriedades,
     [latitude |-> PyStr(<<>>), longitude |-> PyStr(<<>>)],
     [latitude |-> PyStr(<<>>), longitude |-> PyStr(Longitude),
      bairro |-> PyStr(Centro)],
     [latitude |-> PyStr(Latitude), longitude |-> PyStr(<<>>)],
     [latitude |-> PyNone, longitude |-> PyFloat(-43)],
     [longitude |-> PyStr(<<>>), bairro |-> PyStr(<<>>)],
     [bairro |-> PyStr(Norte)]}

\* The features of the documents; some have no "geometry" or no
\* "properties" member.
FeaturesCorrecao ==
    {[type |-> PyStr(Chars("Feature")), geometry |-> g, properties |-> p] :
        g \in GeometriasCorrecao, p \in PropriedadesCorrecao}
    \cup {[type |-> PyStr(Chars("Feature")), properties |-> p] :
              p \in PropriedadesCorrecao}
    \cup {[type |-> PyStr(Chars("Feature")), geometry |-> g] :
              g \in GeometriasCorrecao}

InitCorrecao ==
    /\ pc = "inicio"
    /\ features \in SeqsUpTo(FeaturesCorrecao, MaxDocumento)
    /\ features_validas = <<>>
    /\ features_invalidas = 0
    /\ gdf_ocorrencias = Unused
    /\ contagens = Unused
    /\ data_valor = Unused
    /\ estacao = Unused
    /\ gdf_bairros = Unused
    /\ gdf_resultado = Unused
    /\ ocorrencias_por_estacao = Unused
    /\ ocorrencias_sem_data = 0
    /\ ocorrencias_sem_estacao = 0
    /\ salvo = Unused
    /\ stats = Unused
    /\ estacao_extrair = Unused

\* stats = corrigir_geojson(arquivo, caminho_destino): the document read
\* from the file is corrected and written to the destination.
CorrigirGeojson ==
    /\ pc = "inicio"
    /\ salvo' = corrigir_geojson(features).data
    /\ stats' = corrigir_geojson(features).stats
    /\ pc' = "fim"
    /\ UNCHANGED <<data_valor, estacao, features, features_validas,
                   features_invalidas, gdf_ocorrencias, contagens,
                   gdf_bairros, gdf_resultado, ocorrencias_por_estacao,
                   ocorrencias_sem_data, ocorrencias_sem_estacao>>
    /\ UNCHANGED estacao_extrair

NextCorrecao == CorrigirGeojson

SpecCorrecao == InitCorrecao /\ [][NextCorrecao]_vars

\* The member of the feature, with a mark of its own when it is absent.
Membro(feature, key) ==
    IF key \in DOMAIN feature THEN feature[key] ELSE [kind |-> "absent"]

\* The geometry is a mapping whose coordinates are ["", ""].
GeometriaDeVazias(g) ==
    /\ g.kind = "dict"
    /\ "coordinates" \in g.keys
    /\ g.coordinates = DuasVazias

\* The property of the feature is the empty text.
PropriedadeVazia(feature, campo) ==
    /\ "properties" \in DOMAIN feature
    /\ feature.properties # PyNone
    /\ campo \in DOMAIN feature.properties
    /\ feature.properties[campo] = PyStr(<<>>)

\* Feature i of the saved document differs from the one read only in a
\* geometry of empty coordinates, now null, and in an empty latitude or
\* longitude, now null.
SoCorrecoes(i) ==
    LET antes == features[i]
        depois == salvo[i]
    IN  /\ DOMAIN depois = DOMAIN antes
        /\ \A k \in DOMAIN antes \ {"geometry", "properties"} :
               depois[k] = antes[k]
        /\ "geometry" \in DOMAIN antes =>
               depois.geometry =
                   IF GeometriaDeVazias(antes.geometry) THEN PyNone
                   ELSE antes.geometry
        /\ "properties" \in DOMAIN antes =>
               IF antes.properties = PyNone THEN depois.properties = PyNone
               ELSE /\ depois.properties # PyNone
                    /\ DOMAIN depois.properties = DOMAIN antes.properties
                    /\ \A c \in DOMAIN antes.properties :
                           depois.properties[c] =
                               IF /\ c \in {"latitude", "longitude"}
                                  /\ antes.properties[c] = PyStr(<<>>)
                               THEN PyNone
                               ELSE antes.properties[c]

\* C16: after corrigir_geojson no feature of the saved document has a
\* geometry whose coordinates are ["", ""] (the geometry is null instead)
\* and none has an empty latitude or longitude (it is null instead); the
\* number and the order of the features and every other field are
\* unchanged, and each counter of the statistics is the number of features
\* changed for that reason.
C16_DocumentoCorrigido ==
    pc = "fim" =>
        /\ Len(salvo) = Len(features)
        /\ \A i \in DOMAIN salvo :
               /\ ~GeometriaDeVazias(Membro(salvo[i], "geometry"))
               /\ ~PropriedadeVazia(salvo[i], "latitude")
               /\ ~PropriedadeVazia(salvo[i], "longitude")
               /\ SoCorrecoes(i)
        /\ stats.coordenadas_vazias =
               Cardinality({i \in DOMAIN salvo :
                   Membro(salvo[i], "geometry")
                       # Membro(features[i], "geometry")})
        /\ stats.latitude_vazia =
               Cardinality({i \in DOMAIN salvo :
                   PropriedadeVazia(features[i], "latitude")
                       /\ ~PropriedadeVazia(salvo[i], "latitude")})
        /\ stats.longitude_vazia =
               Cardinality({i \in DOMAIN salvo :
                   PropriedadeVazia(features[i], "longitude")
                       /\ ~PropriedadeVazia(salvo[i], "longitude")})
        /\ stats.total_features = Len(features)

\* A document of two features: the first has empty coordinates and an
\* empty latitude and longitude, the second needs no correction.
C16_Witness ==
    /\ pc = "fim"
    /\ Len(features) = 2
    /\ GeometriaDeVazias(Membro(features[1], "geometry"))
    /\ PropriedadeVazia(features[1], "latitude")
    /\ PropriedadeVazia(features[1], "longitude")
    /\ salvo[1].geometry = PyNone
    /\ salvo[1].properties.latitude = PyNone
    /\ salvo[1].properties.longitude = PyNone
    /\ salvo[2] = features[2]
    /\ stats = [coordenadas_vazias |-> 1, latitude_vazia |-> 1,
                longitude_vazia |-> 1, total_features |-> 2]

(***************************************************************************)
(* The two copies of the classifier, applied to the same value              *)
(***************************************************************************)
\* estacao = determinar_estacao_hemisferio_sul(data_valor), as the splitter
\* calls its own copy of the function on the value of the date column.
ClassificarExtracao ==
    /\ estacao_extrair = Unused
    /\ estacao_extrair' = extrair_determinar_estacao_hemisferio_sul(data_valor)
    /\ UNCHANGED <<pc, data_valor, estacao, features, features_validas,
                   features_invalidas, gdf_ocorrencias, contagens,
                   gdf_bairros, gdf_resultado, ocorrencias_por_estacao,
                   ocorrencias_sem_data, ocorrencias_sem_estacao, salvo,
                   stats>>

\* Each script classifies the value once, in either order.
NextEquivalencia == Classificar \/ ClassificarExtracao

SpecEquivalencia == InitEstacao /\ [][NextEquivalencia]_vars

\* Both scripts have classified data_valor.
AmbasClassificaram == pc = "fim" /\ estacao_extrair # Unused

\* C21: the copy of the classifier in the aggregation script and the copy in
\* the season-splitting script are equivalent: on every value neither raises
\* and they return the same season label, or both return None.
C21_CopiasEquivalentes ==
    AmbasClassificaram =>
        /\ ~estacao.raised
        /\ ~estacao_extrair.raised
        /\ estacao.value = estacao_extrair.value
        /\ \/ estacao.value = PyNone
           \/ \E s \in Estacoes : estacao.value = PyStr(s)

\* Both copies put Jun 20, the first day of winter, in winter, Jun 19 being
\* autumn in both; the witness is the text of Jun 20, 2024.
C21_Witness ==
    /\ AmbasClassificaram
    /\ data_valor = PyStr(FmtISO(2024, 6, 20))
    /\ estacao = Return(PyStr(Inverno))
    /\ estacao_extrair = Return(PyStr(Inverno))

=============================================================================
